---- MODULE Spec2Model ----
(***************************************************************************)
(* State-machine model of the indy-sdk pluggable wallet storage:           *)
(*   - the relational backend, libindy/src/services/wallet/storage/        *)
(*     postgres/mod.rs (PostgresStorageType, PostgresStorage).             *)
(* The PostgreSQL server is modelled as a map from database name to the    *)
(* four tables of _CREATE_SCHEMA; every handler of the storage contract is *)
(* one action that runs the handler's SQL statements in order.             *)
(***************************************************************************)
EXTENDS Integers, Sequences, FiniteSets, TLC

(***************************************************************************)
(* Bounds of the model.                                                    *)
(***************************************************************************)
\* cap on the values handed out by the BIGSERIAL sequence items.id
MaxSeq == 2
\* longest tag list / tag-name list passed to one call
MaxTags == 2
\* number of PostgresStorage objects that can be alive at once
MaxHandles == 1
\* number of PostgresStorageIterator objects that can be alive at once
MaxIters == 1
\* number of threads calling the postgreswallet_fn_* functions
MaxThreads == 2
\* cap on the values handed out by SequenceUtils::get_next_id
MaxOpens == 3
\* the items the REST server and the SQLite wallet files hold together
MaxRows == 2
\* the ticks the clock runs for
MaxClock == 4
\* the length of the key of an EncryptedValue, in bytes
ENCRYPTED_KEY_LEN == 2
\* the record handles the wrapper hands out
MaxRecords == 2
\* the length of the data of an EncryptedValue, in bytes
MaxData == 1

(***************************************************************************)
(* Input domains (the values of the unit tests, abbreviated).              *)
(***************************************************************************)
\* database names: _wallet_id() and the "unknown" wallet of the tests
WalletIds == {"walle1", "unknown"}
\* names create_storage is called with
CreatableIds == {"walle1"}
\* (type, id) pairs add() is called with: _id1() under _type1() and under _type2()
AddKeys == {<<1, 1>>, <<2, 1>>}
\* (type, id) pairs the other calls address: those, and _id2() under _type1(),
\* which is never added (a wrong id; <<2, 1>> is a wrong type while only <<1, 1>> is stored)
Keys == AddKeys \cup {<<1, 2>>}
\* _value1(), _value2(): data and key differ so that a swap shows
EncValues == {[data |-> 7, key |-> 10], [data |-> 8, key |-> 11]}
TagNames == {1}
EncTagValues == {3, 4}
PlainTagValues == {5, 6}
\* _metadata() and the empty byte sequence
MetaValues == {<<>>, <<1, 2>>}

\* enum Tag { Encrypted(name, value), PlainText(name, value) }
Tags ==
    [variant : {"Encrypted"}, name : TagNames, value : EncTagValues]
    \cup [variant : {"PlainText"}, name : TagNames, value : PlainTagValues]
\* enum TagName { OfEncrypted(name), OfPlain(name) }
TagNameSet == [variant : {"OfEncrypted", "OfPlain"}, name : TagNames]

RECURSIVE SeqsUpTo(_, _)
SeqsUpTo(S, n) ==
    IF n = 0 THEN {<<>>}
    ELSE LET shorter == SeqsUpTo(S, n - 1)
         IN shorter \cup {Append(s, x) : s \in {t \in shorter : Len(t) = n - 1}, x \in S}

TagLists == SeqsUpTo(Tags, MaxTags)
TagNameLists == SeqsUpTo(TagNameSet, MaxTags)

\* RecordOptions { retrieve_type, retrieve_value, retrieve_tags }
RecordOptions_default == [retrieve_type |-> FALSE, retrieve_value |-> TRUE, retrieve_tags |-> FALSE]
RecordOptions_full == [retrieve_type |-> FALSE, retrieve_value |-> TRUE, retrieve_tags |-> TRUE]
RecordOptionsSet ==
    {RecordOptions_default, RecordOptions_full,
     [retrieve_type |-> TRUE, retrieve_value |-> FALSE, retrieve_tags |-> FALSE]}

Handles == 1..MaxHandles
IterIds == 1..MaxIters
Threads == 1..MaxThreads

(***************************************************************************)
(* State.                                                                  *)
(***************************************************************************)
VARIABLES
    databases,  \* the server: database name -> its tables, or NoDb
    storages,   \* PostgresStorage objects: handle -> name of the database conn is connected to, or NoStorage
    ret,        \* the call that has just returned and its result (Idle between calls)
    before,     \* the server's databases as they were when the call in ret was made
    iterators,  \* PostgresStorageIterator objects: iterator id -> its fields, or NoIterator
    iter_before,            \* the iterators as they were when the call in ret was made
    POSTGRES_OPEN_WALLETS,  \* the wrapper's table of open wallets: xhandle -> PostgresStorageContext
    sequence,   \* the last id SequenceUtils::get_next_id handed out
    mutex,      \* the thread that holds the lock of POSTGRES_OPEN_WALLETS, or 0
    pc,         \* where each thread is in the postgreswallet_fn_* call it is making
    server,     \* the REST server of the remote wallet: its items and the last row id it assigned
    files,      \* wallet_path(name)/sqlite.db of each wallet name: NoFile or the SQLite database
    clock,      \* the time, in ticks of 1/TicksPerSecond second
    kv_before,  \* server and files as they were when the call in ret was made
    POSTGRES_ACTIVE_RECORDS, \* the wrapper's table of fetched records: record handle -> PostgresWalletRecord
    INMEM_OPEN_WALLETS,     \* the wrapper's table of open in-memory wallets: xhandle -> InmemWalletContext
    INMEM_WALLETS,          \* the wrapper's in-memory wallets: id -> InmemWalletEntity
    ACTIVE_METADATAS,       \* the wrapper's table of metadata handed out: handle -> metadata
    ACTIVE_SEARCHES,        \* the wrapper's table of searches: search handle -> the records left
    locks,      \* the thread that holds the lock of each of the other tables, or 0
    calls       \* the call each thread has begun on a connection of its own and not completed, or NoCall

iter_vars == <<iterators, iter_before>>
ffi_vars == <<POSTGRES_OPEN_WALLETS, sequence, mutex, pc>>
kv_vars == <<server, files, clock, kv_before>>
rec_vars == <<POSTGRES_ACTIVE_RECORDS>>
inmem_vars == <<INMEM_OPEN_WALLETS, INMEM_WALLETS, ACTIVE_METADATAS, ACTIVE_SEARCHES, locks>>
vars == <<databases, storages, ret, before, iterators, iter_before,
          POSTGRES_OPEN_WALLETS, sequence, mutex, pc, server, files, clock, kv_before,
          POSTGRES_ACTIVE_RECORDS, INMEM_OPEN_WALLETS, INMEM_WALLETS, ACTIVE_METADATAS,
          ACTIVE_SEARCHES, locks, calls>>
conc_vars == <<calls>>

\* no call in progress. For a set of the remote wallet: the wallet, key and
\* value and the row id its lookup found; for a get or delete_tags of
\* PostgresStorage: the database, type and id, the id of the item row found,
\* the tags read so far or the tag names; `seen` keeps every tag set the
\* record has had since the call began, `found` and `existed` whether the item
\* row was there at the lookup of the call and when the call committed.
NoCall == [op |-> "none", w |-> <<>>, key |-> <<>>, val |-> "", tmp_id |-> 0,
           wid |-> "", type_ |-> 0, id |-> 0, item_id |-> 0, tags |-> {}, tag_names |-> <<>>,
           seen |-> {}, found |-> FALSE, existed |-> FALSE, res |-> ""]

\* the tables of the wrapper that `locks` has the mutex of
LockTables == {"POSTGRES_ACTIVE_RECORDS", "INMEM_OPEN_WALLETS", "INMEM_WALLETS",
               "ACTIVE_METADATAS", "ACTIVE_RECORDS", "ACTIVE_SEARCHES"}

NoDb == [exists |-> FALSE, tables |-> FALSE, metadata |-> {}, items |-> {},
         tags_encrypted |-> {}, tags_plaintext |-> {}, seq |-> 0]
NoStorage == "none"

\* Option<T>: None is <<>>, Some(x) is <<x>>
None == <<>>
Some(x) == <<x>>

NoValue == [data |-> 0, key |-> 0]
NoOptions == [retrieve_type |-> FALSE, retrieve_value |-> FALSE, retrieve_tags |-> FALSE]
Idle == [op |-> "idle", h |-> 0, wid |-> "", type_ |-> 0, id |-> 0, value |-> NoValue,
         tags |-> <<>>, tag_names |-> <<>>, options |-> NoOptions, metadata |-> <<>>,
         res |-> "", record |-> None, bytes |-> None,
         it |-> 0, query |-> <<>>, search_options |-> <<>>, count |-> None, t |-> 0,
         xhandle |-> 0, handles |-> <<>>,
         w |-> <<>>, key |-> <<>>, val |-> "", list |-> <<>>, health |-> FALSE,
         record_handle |-> 0, requests |-> <<>>, records |-> <<>>]

\* no file at wallet_path(name)/sqlite.db
NoFile == [exists |-> FALSE, table |-> FALSE, rows |-> {}]
\* the wallet names create, open and delete are called with
RootNames == {"wallet1"}

\* no PostgresStorageIterator under this id
NoIterator == [conn |-> NoStorage]
\* a thread that is in none of the postgreswallet_fn_* functions
Outside == [at |-> "outside", id |-> "", xhandle |-> 0]
\* a thread of a process that was aborted
Aborted == [at |-> "aborted", id |-> "", xhandle |-> 0]

(***************************************************************************)
(* The tables and their constraints (_CREATE_SCHEMA).                      *)
(***************************************************************************)
\* CREATE UNIQUE INDEX ux_items_type_name ON items(type, name), mutated: no index
ux_items_type_name_absent(items, type_, name) == FALSE

\* CREATE UNIQUE INDEX ux_items_type_name ON items(type, name):
\* TRUE when inserting (type, name) violates the index
ux_items_type_name(items, type_, name) ==
    \E r \in items : r.type = type_ /\ r.name = name

\* PRIMARY KEY(name, item_id), mutated: no key
tags_primary_key_absent(table, name, item_id) == FALSE

\* PRIMARY KEY(name, item_id) of tags_encrypted and of tags_plaintext:
\* TRUE when inserting (name, item_id) violates the key
tags_primary_key(table, name, item_id) ==
    \E r \in table : r.name = name /\ r.item_id = item_id

\* FOREIGN KEY(item_id) REFERENCES items(id) ON DELETE CASCADE, mutated: no cascade
on_delete_cascade_absent(table, gone) == table

\* FOREIGN KEY(item_id) REFERENCES items(id) ON DELETE CASCADE:
\* the tag table after the items with ids in `gone` are deleted
on_delete_cascade(table, gone) == {r \in table : r.item_id \notin gone}

\* "CREATE DATABASE $1": a database without tables
NewDatabase == [exists |-> TRUE, tables |-> FALSE, metadata |-> {}, items |-> {},
                tags_encrypted |-> {}, tags_plaintext |-> {}, seq |-> 0]

\* the twelve CREATE ... IF NOT EXISTS statements of _CREATE_SCHEMA
CreateSchema(db) == [db EXCEPT !.tables = TRUE]

\* the four DROP TABLE statements of _DROP_SCHEMA
DropSchema(db) == [db EXCEPT !.tables = FALSE, !.metadata = {}, !.items = {},
                             !.tags_encrypted = {}, !.tags_plaintext = {}, !.seq = 0]

\* "SELECT id FROM items WHERE type = $1 AND name = $2": the matching rows
SelectItem(db, type_, id) == {r \in db.items : r.type = type_ /\ r.name = id}


\* Drop of a Transaction that commits what was executed
Transaction_commit(begun, now) == now

\* Drop of a Transaction that was not committed: ROLLBACK. The tables are
\* those of `begun`, the database at BEGIN; the sequence keeps the values it
\* handed out since (nextval is not transactional).
Transaction_rollback(begun, now) == [begun EXCEPT !.seq = now.seq]

\* "INSERT INTO tags_* (item_id, name, value) VALUES ($1, $2, $3)" for each
\* tag of the list in order (the loop of add and of update_tags); stops at
\* the first statement that fails
RECURSIVE InsertTags(_, _, _)
InsertTags(db, item_id, tags) ==
    IF tags = <<>> THEN [ok |-> TRUE, db |-> db]
    ELSE LET tag == Head(tags)
             row == [name |-> tag.name, value |-> tag.value, item_id |-> item_id]
         IN IF tag.variant = "Encrypted"
            THEN IF tags_primary_key(db.tags_encrypted, tag.name, item_id)
                 THEN [ok |-> FALSE, db |-> db]
                 ELSE InsertTags([db EXCEPT !.tags_encrypted = @ \cup {row}], item_id, Tail(tags))
            ELSE IF tags_primary_key(db.tags_plaintext, tag.name, item_id)
                 THEN [ok |-> FALSE, db |-> db]
                 ELSE InsertTags([db EXCEPT !.tags_plaintext = @ \cup {row}], item_id, Tail(tags))

\* ON CONFLICT DO UPDATE, mutated to ON CONFLICT DO NOTHING
Upsert_do_nothing(table, row) ==
    IF tags_primary_key(table, row.name, row.item_id) THEN table ELSE table \cup {row}

\* "INSERT INTO tags_* ... ON CONFLICT (name, item_id) DO UPDATE SET value = excluded.value"
Upsert(table, row) ==
    IF tags_primary_key(table, row.name, row.item_id)
    THEN {IF r.name = row.name /\ r.item_id = row.item_id THEN [r EXCEPT !.value = row.value] ELSE r
            : r \in table}
    ELSE table \cup {row}

\* the loop of add_tags: one upsert per tag of the list, in order
RECURSIVE UpsertTags(_, _, _)
UpsertTags(db, item_id, tags) ==
    IF tags = <<>> THEN db
    ELSE LET tag == Head(tags)
             row == [name |-> tag.name, value |-> tag.value, item_id |-> item_id]
         IN IF tag.variant = "Encrypted"
            THEN UpsertTags([db EXCEPT !.tags_encrypted = Upsert(@, row)], item_id, Tail(tags))
            ELSE UpsertTags([db EXCEPT !.tags_plaintext = Upsert(@, row)], item_id, Tail(tags))

\* the loop of delete_tags, mutated: both tables whatever the variant
DeleteTagRows_both_tables(db, item_id, tag_name) ==
    [db EXCEPT !.tags_encrypted = {r \in @ : ~(r.item_id = item_id /\ r.name = tag_name.name)},
               !.tags_plaintext = {r \in @ : ~(r.item_id = item_id /\ r.name = tag_name.name)}]

\* "DELETE FROM tags_encrypted WHERE item_id = $1 AND name = $2" for OfEncrypted,
\* "DELETE FROM tags_plaintext WHERE item_id = $1 AND name = $2" for OfPlain
DeleteTagRows(db, item_id, tag_name) ==
    IF tag_name.variant = "OfEncrypted"
    THEN [db EXCEPT !.tags_encrypted = {r \in @ : ~(r.item_id = item_id /\ r.name = tag_name.name)}]
    ELSE [db EXCEPT !.tags_plaintext = {r \in @ : ~(r.item_id = item_id /\ r.name = tag_name.name)}]

RECURSIVE DeleteTagList(_, _, _)
DeleteTagList(db, item_id, tag_names) ==
    IF tag_names = <<>> THEN db
    ELSE DeleteTagList(DeleteTagRows(db, item_id, Head(tag_names)), item_id, Tail(tag_names))

(***************************************************************************)
(* impl WalletStorage for PostgresStorage: each handler as a function of   *)
(* the database it is connected to, returning its result and the database  *)
(* it leaves.                                                              *)
(***************************************************************************)
\* get, mutated: the plaintext tags are not read
RetrieveTags_encrypted_only(db, item_id) ==
    {[variant |-> "Encrypted", name |-> r.name, value |-> r.value]
        : r \in {x \in db.tags_encrypted : x.item_id = item_id}}

\* the rows "SELECT name, value FROM tags_encrypted WHERE item_id = $1" and
\* "SELECT name, value FROM tags_plaintext WHERE item_id = $1" return, as Tags
RetrieveTags(db, item_id) ==
    {[variant |-> "Encrypted", name |-> r.name, value |-> r.value]
        : r \in {x \in db.tags_encrypted : x.item_id = item_id}}
    \cup {[variant |-> "PlainText", name |-> r.name, value |-> r.value]
        : r \in {x \in db.tags_plaintext : x.item_id = item_id}}

\* PostgresStorage::get. The record is StorageRecord { id, value, type_, tags },
\* its value EncryptedValue { data, key } built from the columns value and key;
\* the tags are a Vec in the order the rows come back, which SQL leaves open:
\* the model keeps them as a set.
get(db, type_, id, options) ==
    IF ~db.tables THEN [res |-> "panic", record |-> None]
    ELSE LET rows == SelectItem(db, type_, id)
         IN IF rows = {} THEN [res |-> "ItemNotFound", record |-> None]
            ELSE LET item == CHOOSE r \in rows : TRUE
                     value == IF options.retrieve_value
                              THEN Some([data |-> item.value, key |-> item.key]) ELSE None
                     rtype == IF options.retrieve_type THEN Some(type_) ELSE None
                     tags == IF options.retrieve_tags
                             THEN Some(RetrieveTags(db, item.id)) ELSE None
                 IN [res |-> "Ok",
                     record |-> Some([id |-> id, value |-> value, type_ |-> rtype, tags |-> tags])]

\* PostgresStorage::add. The id column is BIGSERIAL: an inserted row gets the
\* next value of the sequence, also when the transaction is rolled back later.
\* (PostgreSQL also skips a value for an INSERT the unique index rejects; the
\* ids are read by nothing but the tag tables, so the model does not.)
add(db, type_, id, value, tags) ==
    IF ~db.tables THEN [res |-> "IOError", db |-> db]
    ELSE IF ux_items_type_name(db.items, type_, id)
    THEN [res |-> "ItemAlreadyExists", db |-> Transaction_rollback(db, db)]
    ELSE LET item_id == db.seq + 1
             row == [id |-> item_id, type |-> type_, name |-> id,
                     value |-> value.data, key |-> value.key]
             inserted == [db EXCEPT !.seq = item_id, !.items = @ \cup {row}]
             stored == InsertTags(inserted, item_id, tags)
         IN IF stored.ok
            THEN [res |-> "Ok", db |-> stored.db]
            ELSE [res |-> "ItemAlreadyExists", db |-> Transaction_rollback(db, stored.db)]

\* update, mutated: "WHERE name = $4" without the type
update_any_type(db, type_, id, value) ==
    IF ~db.tables THEN [res |-> "IOError", db |-> db]
    ELSE LET count == Cardinality({r \in db.items : r.name = id})
             after == [db EXCEPT !.items =
                          {IF r.name = id
                           THEN [r EXCEPT !.value = value.data, !.key = value.key] ELSE r
                             : r \in @}]
         IN [res |-> IF count = 1 THEN "Ok" ELSE IF count = 0 THEN "ItemNotFound" ELSE "InvalidState",
             db |-> after]

\* PostgresStorage::update
update(db, type_, id, value) ==
    IF ~db.tables THEN [res |-> "IOError", db |-> db]
    ELSE LET count == Cardinality(SelectItem(db, type_, id))
             after == [db EXCEPT !.items =
                          {IF r.type = type_ /\ r.name = id
                           THEN [r EXCEPT !.value = value.data, !.key = value.key] ELSE r
                             : r \in @}]
         IN [res |-> IF count = 1 THEN "Ok" ELSE IF count = 0 THEN "ItemNotFound" ELSE "InvalidState",
             db |-> after]

\* add_tags, mutated: a missing record is not reported
add_tags_unchecked(db, type_, id, tags) ==
    IF ~db.tables THEN [res |-> "IOError", db |-> db]
    ELSE LET rows == SelectItem(db, type_, id)
         IN IF rows = {} THEN [res |-> "Ok", db |-> db]
            ELSE LET item_id == (CHOOSE r \in rows : TRUE).id
                 IN [res |-> "Ok", db |-> UpsertTags(db, item_id, tags)]

\* PostgresStorage::add_tags
add_tags(db, type_, id, tags) ==
    IF ~db.tables THEN [res |-> "IOError", db |-> db]
    ELSE LET rows == SelectItem(db, type_, id)
         IN IF rows = {} THEN [res |-> "ItemNotFound", db |-> Transaction_rollback(db, db)]
            ELSE LET item_id == (CHOOSE r \in rows : TRUE).id
                 IN [res |-> "Ok", db |-> UpsertTags(db, item_id, tags)]

\* update_tags, mutated: the second DELETE is missing
ClearTags_encrypted_only(db, item_id) ==
    [db EXCEPT !.tags_encrypted = {r \in @ : r.item_id # item_id}]

\* "DELETE FROM tags_encrypted WHERE item_id = $1" and
\* "DELETE FROM tags_plaintext WHERE item_id = $1"
ClearTags(db, item_id) ==
    [db EXCEPT !.tags_encrypted = {r \in @ : r.item_id # item_id},
               !.tags_plaintext = {r \in @ : r.item_id # item_id}]

\* PostgresStorage::update_tags
update_tags(db, type_, id, tags) ==
    IF ~db.tables THEN [res |-> "IOError", db |-> db]
    ELSE LET rows == SelectItem(db, type_, id)
         IN IF rows = {} THEN [res |-> "ItemNotFound", db |-> Transaction_rollback(db, db)]
            ELSE LET item_id == (CHOOSE r \in rows : TRUE).id
                     stored == InsertTags(ClearTags(db, item_id), item_id, tags)
                 IN IF stored.ok
                    THEN [res |-> "Ok", db |-> stored.db]
                    ELSE [res |-> "IOError", db |-> Transaction_rollback(db, stored.db)]

\* PostgresStorage::delete_tags
delete_tags(db, type_, id, tag_names) ==
    IF ~db.tables THEN [res |-> "IOError", db |-> db]
    ELSE LET rows == SelectItem(db, type_, id)
         IN IF rows = {} THEN [res |-> "ItemNotFound", db |-> db]
            ELSE LET item_id == (CHOOSE r \in rows : TRUE).id
                 IN [res |-> "Ok", db |-> DeleteTagList(db, item_id, tag_names)]

\* PostgresStorage::delete
delete(db, type_, id) ==
    IF ~db.tables THEN [res |-> "IOError", db |-> db]
    ELSE LET gone == {r.id : r \in SelectItem(db, type_, id)}
             row_count == Cardinality(gone)
         IN [res |-> IF row_count = 1 THEN "Ok" ELSE "ItemNotFound",
             db |-> [db EXCEPT !.items = {r \in @ : r.id \notin gone},
                               !.tags_encrypted = on_delete_cascade(@, gone),
                               !.tags_plaintext = on_delete_cascade(@, gone)]]

\* PostgresStorage::get_storage_metadata
get_storage_metadata(db) ==
    IF ~db.tables THEN [res |-> "panic", bytes |-> None]
    ELSE IF db.metadata = {} THEN [res |-> "ItemNotFound", bytes |-> None]
    ELSE [res |-> "Ok", bytes |-> Some((CHOOSE r \in db.metadata : TRUE).value)]

\* set_storage_metadata, mutated: INSERT instead of UPDATE
set_storage_metadata_insert(db, metadata) ==
    IF ~db.tables THEN [res |-> "IOError", db |-> db]
    ELSE [res |-> "Ok",
          db |-> [db EXCEPT !.metadata = @ \cup {[id |-> Cardinality(@) + 1, value |-> metadata]}]]

\* PostgresStorage::set_storage_metadata
set_storage_metadata(db, metadata) ==
    IF ~db.tables \/ Cardinality(db.metadata) > 1
    THEN [res |-> "IOError", db |-> db]
    ELSE [res |-> "Ok", db |-> [db EXCEPT !.metadata = {[r EXCEPT !.value = metadata] : r \in @}]]


(***************************************************************************)
(* impl WalletStorageType for PostgresStorageType: each handler as a       *)
(* function of the server's databases.                                     *)
(***************************************************************************)
\* "INSERT INTO metadata(value) VALUES($1) ON CONFLICT (value) DO UPDATE SET value = excluded.value"
InsertMetadata(db, metadata) ==
    IF \E r \in db.metadata : r.value = metadata THEN db
    ELSE [db EXCEPT !.metadata = @ \cup {[id |-> Cardinality(@) + 1, value |-> metadata]}]

\* create_storage that runs _CREATE_SCHEMA and the metadata insert even when
\* CREATE DATABASE failed
create_storage_reinit(dbs, id, metadata) ==
    [res |-> IF dbs[id].exists THEN "AlreadyExists" ELSE "Ok",
     dbs |-> [dbs EXCEPT ![id] = InsertMetadata(CreateSchema(NewDatabase), metadata)]]

\* PostgresStorageType::create_storage: a failed CREATE DATABASE makes
\* schema_result Err(AlreadyExists), which skips the schema statements and
\* the metadata insert
create_storage(dbs, id, metadata) ==
    IF dbs[id].exists
    THEN [res |-> "AlreadyExists", dbs |-> dbs]
    ELSE [res |-> "Ok",
          dbs |-> [dbs EXCEPT ![id] = InsertMetadata(CreateSchema(NewDatabase), metadata)]]

\* impl From<postgres::Error> for WalletStorageError, applied by `?` to the
\* error of a statement or of Connection::connect (`code` is its SQLSTATE)
WalletStorageError_from(code) ==
    IF code \in {"unique_violation", "integrity_constraint_violation"}
    THEN "ItemAlreadyExists" ELSE "IOError"

\* PostgresStorageType::open_storage: the database the new PostgresStorage
\* is connected to; connecting to a database that does not exist fails
open_storage(dbs, id) ==
    IF dbs[id].exists THEN [res |-> "Ok", conn |-> id]
    ELSE [res |-> WalletStorageError_from("invalid_catalog_name"), conn |-> NoStorage]

\* PostgresStorageType::delete_storage. `sessions` are the connections other
\* clients hold to the database: DROP DATABASE fails while there are any,
\* and the handler ignores that failure as it ignores every other one.
delete_storage(dbs, sessions, id) ==
    LET dropped == IF dbs[id].exists THEN DropSchema(dbs[id]) ELSE dbs[id]
    IN [res |-> "Ok",
        dbs |-> [dbs EXCEPT ![id] = IF dropped.exists /\ sessions = {} THEN NoDb ELSE dropped]]

(***************************************************************************)
(* Actions: one per handler. A call is made when no call is pending        *)
(* (ret = Idle); it leaves its arguments and result in ret, and Return     *)
(* hands the result to the caller.                                         *)
(***************************************************************************)
Init ==
    /\ databases = [w \in WalletIds |-> NoDb]
    /\ storages = [h \in Handles |-> NoStorage]
    /\ ret = Idle
    /\ before = databases
    /\ iterators = [i \in IterIds |-> NoIterator]
    /\ iter_before = iterators
    /\ POSTGRES_OPEN_WALLETS = <<>>
    /\ sequence = 0
    /\ mutex = 0
    /\ pc = [t \in Threads |-> Outside]
    /\ server = [items |-> {}, seq |-> 0]
    /\ files = [n \in RootNames |-> NoFile]
    /\ clock = 0
    /\ kv_before = [server |-> server, files |-> files]
    /\ POSTGRES_ACTIVE_RECORDS = <<>>
    /\ INMEM_OPEN_WALLETS = <<>>
    /\ INMEM_WALLETS = <<>>
    /\ ACTIVE_METADATAS = <<>>
    /\ ACTIVE_SEARCHES = <<>>
    /\ locks = [m \in LockTables |-> 0]
    /\ calls = [t \in Threads |-> NoCall]

Open == {h \in Handles : storages[h] # NoStorage}
\* the connections to the database `id`: one per PostgresStorage, shared (Rc)
\* with the iterators made from it, which keep it open after the storage is gone
Sessions(id) ==
    {<<"storage", h>> : h \in {x \in Handles : storages[x] = id}}
    \cup {<<"iterator", i>> : i \in {x \in IterIds : iterators[x].conn = id}}
    \cup {<<"context", x>> : x \in {y \in DOMAIN POSTGRES_OPEN_WALLETS :
                                        POSTGRES_OPEN_WALLETS[y].id = id}}

CreateStorage(id, metadata) ==
    /\ ret = Idle
    /\ before' = databases
    /\ LET r == create_storage(databases, id, metadata)
       IN /\ databases' = r.dbs
          /\ ret' = [Idle EXCEPT !.op = "create_storage", !.wid = id, !.metadata = metadata,
                                 !.res = r.res]
    /\ UNCHANGED storages
    /\ UNCHANGED <<iter_vars, ffi_vars, kv_vars, rec_vars, inmem_vars, conc_vars>>

OpenStorage(h, id) ==
    /\ ret = Idle
    /\ before' = databases
    /\ storages[h] = NoStorage
    /\ LET r == open_storage(databases, id)
       IN /\ storages' = [storages EXCEPT ![h] = r.conn]
          /\ ret' = [Idle EXCEPT !.op = "open_storage", !.wid = id, !.h = h, !.res = r.res]
    /\ UNCHANGED databases
    /\ UNCHANGED <<iter_vars, ffi_vars, kv_vars, rec_vars, inmem_vars, conc_vars>>

DeleteStorage(id) ==
    /\ ret = Idle
    /\ before' = databases
    /\ LET r == delete_storage(databases, Sessions(id), id)
       IN /\ databases' = r.dbs
          /\ ret' = [Idle EXCEPT !.op = "delete_storage", !.wid = id, !.res = r.res]
    /\ UNCHANGED storages
    /\ UNCHANGED <<iter_vars, ffi_vars, kv_vars, rec_vars, inmem_vars, conc_vars>>

\* PostgresStorage::close
Close(h) ==
    /\ ret = Idle
    /\ before' = databases
    /\ h \in Open
    /\ ret' = [Idle EXCEPT !.op = "close", !.h = h, !.wid = storages[h], !.res = "Ok"]
    /\ UNCHANGED <<databases, storages>>
    /\ UNCHANGED <<iter_vars, ffi_vars, kv_vars, rec_vars, inmem_vars, conc_vars>>

\* the Box<WalletStorage> goes out of scope: its connection is closed
DropStorage(h) ==
    /\ ret = Idle
    /\ before' = databases
    /\ h \in Open
    /\ storages' = [storages EXCEPT ![h] = NoStorage]
    /\ ret' = [Idle EXCEPT !.op = "drop", !.h = h, !.wid = storages[h], !.res = "Ok"]
    /\ UNCHANGED databases
    /\ UNCHANGED <<iter_vars, ffi_vars, kv_vars, rec_vars, inmem_vars, conc_vars>>

Get(h, type_, id, options) ==
    /\ ret = Idle
    /\ before' = databases
    /\ h \in Open
    /\ LET r == get(databases[storages[h]], type_, id, options)
       IN ret' = [Idle EXCEPT !.op = "get", !.h = h, !.wid = storages[h], !.type_ = type_,
                              !.id = id, !.options = options, !.res = r.res,
                              !.record = r.record]
    /\ UNCHANGED <<databases, storages>>
    /\ UNCHANGED <<iter_vars, ffi_vars, kv_vars, rec_vars, inmem_vars, conc_vars>>

Add(h, type_, id, value, tags) ==
    /\ ret = Idle
    /\ before' = databases
    /\ h \in Open
    /\ LET r == add(databases[storages[h]], type_, id, value, tags)
       IN /\ r.db.seq <= MaxSeq
          /\ databases' = [databases EXCEPT ![storages[h]] = r.db]
          /\ ret' = [Idle EXCEPT !.op = "add", !.h = h, !.wid = storages[h], !.type_ = type_,
                                 !.id = id, !.value = value, !.tags = tags, !.res = r.res]
    /\ UNCHANGED storages
    /\ UNCHANGED <<iter_vars, ffi_vars, kv_vars, rec_vars, inmem_vars, conc_vars>>

Update(h, type_, id, value) ==
    /\ ret = Idle
    /\ before' = databases
    /\ h \in Open
    /\ LET r == update(databases[storages[h]], type_, id, value)
       IN /\ databases' = [databases EXCEPT ![storages[h]] = r.db]
          /\ ret' = [Idle EXCEPT !.op = "update", !.h = h, !.wid = storages[h], !.type_ = type_,
                                 !.id = id, !.value = value, !.res = r.res]
    /\ UNCHANGED storages
    /\ UNCHANGED <<iter_vars, ffi_vars, kv_vars, rec_vars, inmem_vars, conc_vars>>

AddTags(h, type_, id, tags) ==
    /\ ret = Idle
    /\ before' = databases
    /\ h \in Open
    /\ LET r == add_tags(databases[storages[h]], type_, id, tags)
       IN /\ databases' = [databases EXCEPT ![storages[h]] = r.db]
          /\ ret' = [Idle EXCEPT !.op = "add_tags", !.h = h, !.wid = storages[h], !.type_ = type_,
                                 !.id = id, !.tags = tags, !.res = r.res]
    /\ UNCHANGED storages
    /\ UNCHANGED <<iter_vars, ffi_vars, kv_vars, rec_vars, inmem_vars, conc_vars>>

UpdateTags(h, type_, id, tags) ==
    /\ ret = Idle
    /\ before' = databases
    /\ h \in Open
    /\ LET r == update_tags(databases[storages[h]], type_, id, tags)
       IN /\ databases' = [databases EXCEPT ![storages[h]] = r.db]
          /\ ret' = [Idle EXCEPT !.op = "update_tags", !.h = h, !.wid = storages[h], !.type_ = type_,
                                 !.id = id, !.tags = tags, !.res = r.res]
    /\ UNCHANGED storages
    /\ UNCHANGED <<iter_vars, ffi_vars, kv_vars, rec_vars, inmem_vars, conc_vars>>

DeleteTags(h, type_, id, tag_names) ==
    /\ ret = Idle
    /\ before' = databases
    /\ h \in Open
    /\ LET r == delete_tags(databases[storages[h]], type_, id, tag_names)
       IN /\ databases' = [databases EXCEPT ![storages[h]] = r.db]
          /\ ret' = [Idle EXCEPT !.op = "delete_tags", !.h = h, !.wid = storages[h], !.type_ = type_,
                                 !.id = id, !.tag_names = tag_names, !.res = r.res]
    /\ UNCHANGED storages
    /\ UNCHANGED <<iter_vars, ffi_vars, kv_vars, rec_vars, inmem_vars, conc_vars>>

Delete(h, type_, id) ==
    /\ ret = Idle
    /\ before' = databases
    /\ h \in Open
    /\ LET r == delete(databases[storages[h]], type_, id)
       IN /\ databases' = [databases EXCEPT ![storages[h]] = r.db]
          /\ ret' = [Idle EXCEPT !.op = "delete", !.h = h, !.wid = storages[h], !.type_ = type_,
                                 !.id = id, !.res = r.res]
    /\ UNCHANGED storages
    /\ UNCHANGED <<iter_vars, ffi_vars, kv_vars, rec_vars, inmem_vars, conc_vars>>

GetStorageMetadata(h) ==
    /\ ret = Idle
    /\ before' = databases
    /\ h \in Open
    /\ LET r == get_storage_metadata(databases[storages[h]])
       IN ret' = [Idle EXCEPT !.op = "get_storage_metadata", !.h = h, !.wid = storages[h],
                              !.res = r.res, !.bytes = r.bytes]
    /\ UNCHANGED <<databases, storages>>
    /\ UNCHANGED <<iter_vars, ffi_vars, kv_vars, rec_vars, inmem_vars, conc_vars>>

SetStorageMetadata(h, metadata) ==
    /\ ret = Idle
    /\ before' = databases
    /\ h \in Open
    /\ LET r == set_storage_metadata(databases[storages[h]], metadata)
       IN /\ databases' = [databases EXCEPT ![storages[h]] = r.db]
          /\ ret' = [Idle EXCEPT !.op = "set_storage_metadata", !.h = h, !.wid = storages[h],
                                 !.metadata = metadata, !.res = r.res]
    /\ UNCHANGED storages
    /\ UNCHANGED <<iter_vars, ffi_vars, kv_vars, rec_vars, inmem_vars, conc_vars>>

\* the caller takes the result; the next call can be made
Return ==
    /\ ret # Idle
    /\ ret' = Idle
    /\ before' = databases
    /\ iter_before' = iterators
    /\ kv_before' = [server |-> server, files |-> files]
    /\ UNCHANGED <<databases, storages, iterators, ffi_vars, server, files, clock, rec_vars, inmem_vars, conc_vars>>

Next ==
    \/ \E id \in CreatableIds, m \in MetaValues : CreateStorage(id, m)
    \/ \E h \in Handles, id \in WalletIds : OpenStorage(h, id)
    \/ \E id \in WalletIds : DeleteStorage(id)
    \/ \E h \in Handles : Close(h)
    \/ \E h \in Handles : DropStorage(h)
    \/ \E h \in Handles, k \in Keys, o \in RecordOptionsSet : Get(h, k[1], k[2], o)
    \/ \E h \in Handles, k \in AddKeys, v \in EncValues, tags \in TagLists :
          Add(h, k[1], k[2], v, tags)
    \/ \E h \in Handles, k \in Keys, v \in EncValues : Update(h, k[1], k[2], v)
    \/ \E h \in Handles, k \in Keys, tags \in TagLists : AddTags(h, k[1], k[2], tags)
    \/ \E h \in Handles, k \in Keys, tags \in TagLists : UpdateTags(h, k[1], k[2], tags)
    \/ \E h \in Handles, k \in Keys, names \in TagNameLists : DeleteTags(h, k[1], k[2], names)
    \/ \E h \in Handles, k \in Keys : Delete(h, k[1], k[2])
    \/ \E h \in Handles : GetStorageMetadata(h)
    \/ \E h \in Handles, m \in MetaValues : SetStorageMetadata(h, m)
    \/ Return

Spec == Init /\ [][Next]_vars


(***************************************************************************)
(* Vocabulary of the properties.                                           *)
(***************************************************************************)
RecordCalls == {"get", "update", "delete", "add_tags", "update_tags", "delete_tags"}
Mutators == {"add", "update", "delete", "add_tags", "update_tags", "delete_tags"}

\* the database the returned call ran against, when it was made and now
Pre == before[ret.wid]
Post == databases[ret.wid]

\* get(type, id) with retrieveValue and retrieveTags
Fetch(db, k) == get(db, k[1], k[2], RecordOptions_full)

\* the tags of a list, as a set
TagSet(tags) == {tags[n] : n \in 1..Len(tags)}

\* no two tags of the list have the same name in the same variant
DistinctNames(tags) ==
    \A m, n \in 1..Len(tags) :
        (m # n) => ~(tags[m].variant = tags[n].variant /\ tags[m].name = tags[n].name)

\* the tags a stored record has (the empty set when there is no record)
TagsOf(db, k) == UNION {RetrieveTags(db, r.id) : r \in SelectItem(db, k[1], k[2])}

\* the records other than k are what they were, row by row
OthersUnchanged(pre, post, k) ==
    /\ {r \in post.items : <<r.type, r.name>> # k} = {r \in pre.items : <<r.type, r.name>> # k}
    /\ \A o \in Keys \ {k} : Fetch(post, o) = Fetch(pre, o)
    /\ \A o \in Keys \ {k} : TagsOf(post, o) = TagsOf(pre, o)

\* the call in ret is addressed to a stored record of a wallet that has its tables
OnStored == ret.op \in Mutators \cup {"get"} /\ Pre.tables
                /\ SelectItem(Pre, ret.type_, ret.id) # {}
OnAbsent == ret.op \in Mutators \cup {"get"} /\ Pre.tables
                /\ SelectItem(Pre, ret.type_, ret.id) = {}
RetKey == <<ret.type_, ret.id>>

(***************************************************************************)
(* C1..C10: the record, tag and metadata contract of the relational        *)
(* backend.                                                                *)
(***************************************************************************)
\* C1: in every reachable state each wallet holds at most one record per
\* (type, id), and an add whose (type, id) is already stored returns
\* ItemAlreadyExists (whatever the value it brings) and stores nothing.
C1_UniqueRecord ==
    /\ \A w \in WalletIds : \A r1, r2 \in databases[w].items :
          (r1.type = r2.type /\ r1.name = r2.name) => r1 = r2
    /\ (ret.op = "add" /\ OnStored) =>
          /\ ret.res = "ItemAlreadyExists"
          /\ Post.items = Pre.items
          /\ Post.tags_encrypted = Pre.tags_encrypted
          /\ Post.tags_plaintext = Pre.tags_plaintext

\* C1 witness: an add of a stored (type, id) with a value other than the
\* stored one was answered ItemAlreadyExists
C1_Witness ==
    /\ ret.op = "add" /\ ret.res = "ItemAlreadyExists"
    /\ \E r \in SelectItem(Pre, ret.type_, ret.id) : r.value # ret.value.data

\* the call in ret is a write addressed to the record k of wallet w, or
\* created or deleted w
Modifies(w, k) ==
    \/ ret.op \in Mutators /\ ret.wid = w /\ RetKey = k
    \/ ret.op \in {"create_storage", "delete_storage"} /\ ret.wid = w /\ ret.res = "Ok"

\* C2: an add of an absent (type, id) with tags of distinct names per variant
\* (the empty list included) succeeds, and get with retrieveValue and
\* retrieveTags then returns exactly the value and the tag set that were
\* added; what get returns for a record changes only by a write addressed to
\* that record or by creating or deleting its wallet (so not by a read, a
\* write to another record, close, drop of the handle or open_storage).
C2_AddThenGet ==
    /\ (ret.op = "add" /\ OnAbsent /\ DistinctNames(ret.tags)) => ret.res = "Ok"
    /\ (ret.op = "add" /\ ret.res = "Ok") =>
          LET r == Fetch(Post, RetKey)
          IN /\ r.res = "Ok"
             /\ r.record[1].id = ret.id
             /\ r.record[1].value = Some(ret.value)
             /\ r.record[1].tags = Some(TagSet(ret.tags))
    /\ \A w \in WalletIds, k \in Keys :
          ~Modifies(w, k) => Fetch(databases[w], k) = Fetch(before[w], k)

\* C2 witness: an add with an encrypted and a plaintext tag succeeded
C2_Witness ==
    /\ ret.op = "add" /\ ret.res = "Ok" /\ Len(ret.tags) = 2
    /\ ret.tags[1].variant # ret.tags[2].variant
    /\ Fetch(Post, RetKey).record[1].tags = Some(TagSet(ret.tags))

\* C3: after a successful delete(type, id): get and a second delete of it
\* return ItemNotFound, the items table (what get_all reads) has no row for
\* it, neither tag table has a row of its item id, and every other record
\* and its tags are unchanged.
C3_DeleteCascades ==
    (ret.op = "delete" /\ ret.res = "Ok") =>
        LET gone == {r.id : r \in SelectItem(Pre, ret.type_, ret.id)}
        IN /\ gone # {}
           /\ \A o \in RecordOptionsSet : get(Post, ret.type_, ret.id, o).res = "ItemNotFound"
           /\ delete(Post, ret.type_, ret.id).res = "ItemNotFound"
           /\ SelectItem(Post, ret.type_, ret.id) = {}
           /\ \A r \in Post.tags_encrypted \cup Post.tags_plaintext : r.item_id \notin gone
           /\ OthersUnchanged(Pre, Post, RetKey)
           /\ Post.tags_encrypted = {r \in Pre.tags_encrypted : r.item_id \notin gone}
           /\ Post.tags_plaintext = {r \in Pre.tags_plaintext : r.item_id \notin gone}

\* C3 witness: a record with tags in both tables was deleted while another
\* record with tags was stored
C3_Witness ==
    /\ ret.op = "delete" /\ ret.res = "Ok"
    /\ \E r \in SelectItem(Pre, ret.type_, ret.id) :
          /\ \E t \in Pre.tags_encrypted : t.item_id = r.id
          /\ \E t \in Pre.tags_plaintext : t.item_id = r.id
    /\ Post.tags_encrypted # {}

\* C4: get, update, delete, add_tags, update_tags and delete_tags addressed
\* to a (type, id) that has no record in an existing wallet return
\* ItemNotFound and leave every table of the server as it was.
C4_AbsentIsNotFound ==
    (ret.op \in RecordCalls /\ OnAbsent) =>
        /\ ret.res = "ItemNotFound"
        /\ databases = before

\* C4 witness: add_tags with a non-empty list was addressed to the id of a
\* stored record under another type, and answered ItemNotFound
C4_Witness ==
    /\ ret.op = "add_tags" /\ ret.res = "ItemNotFound" /\ ret.tags # <<>>
    /\ \E r \in Post.items : r.name = ret.id /\ r.type # ret.type_

\* C5: update of a stored record succeeds; afterwards get returns the new
\* value, and the record's tags and every other record are unchanged.
C5_UpdateThenGet ==
    (ret.op = "update" /\ OnStored) =>
        /\ ret.res = "Ok"
        /\ Fetch(Post, RetKey).res = "Ok"
        /\ Fetch(Post, RetKey).record[1].value = Some(ret.value)
        /\ Fetch(Post, RetKey).record[1].tags = Fetch(Pre, RetKey).record[1].tags
        /\ Post.tags_encrypted = Pre.tags_encrypted
        /\ Post.tags_plaintext = Pre.tags_plaintext
        /\ OthersUnchanged(Pre, Post, RetKey)

\* C5 witness: a record with tags got another value while a second record
\* was stored
C5_Witness ==
    /\ ret.op = "update" /\ ret.res = "Ok"
    /\ Fetch(Pre, RetKey).record[1].value # Some(ret.value)
    /\ TagsOf(Pre, RetKey) # {}
    /\ Cardinality(Post.items) = 2

\* the value the last tag of the list with this variant and name carries
LastValue(tags, variant, name) ==
    LET at == {n \in 1..Len(tags) : tags[n].variant = variant /\ tags[n].name = name}
    IN tags[CHOOSE n \in at : \A m \in at : m <= n].value

\* C6: after a successful add_tags(R, T), R has for every (variant, name) of
\* T exactly one tag, with the value T gives it (the last one when T names
\* it twice), every tag of R that T does not name is as it was, and R's value
\* and the other records are unchanged.
C6_AddTagsMerges ==
    (ret.op = "add_tags" /\ OnStored) =>
        LET old == TagsOf(Pre, RetKey)
            new == TagsOf(Post, RetKey)
            named == {<<t.variant, t.name>> : t \in TagSet(ret.tags)}
        IN /\ ret.res = "Ok"
           /\ \A vn \in named :
                 {t \in new : <<t.variant, t.name>> = vn}
                    = {[variant |-> vn[1], name |-> vn[2], value |-> LastValue(ret.tags, vn[1], vn[2])]}
           /\ {t \in new : <<t.variant, t.name>> \notin named}
                 = {t \in old : <<t.variant, t.name>> \notin named}
           /\ Fetch(Post, RetKey).record[1].value = Fetch(Pre, RetKey).record[1].value
           /\ Fetch(Post, RetKey).record[1].tags = Some(new)
           /\ Post.items = Pre.items
           /\ OthersUnchanged(Pre, Post, RetKey)

\* C6 witness: add_tags gave an existing encrypted tag another value and
\* kept the plaintext tag of the same name, which it did not name
C6_Witness ==
    /\ ret.op = "add_tags" /\ ret.res = "Ok"
    /\ \E t \in TagsOf(Pre, RetKey), u \in TagSet(ret.tags) :
          t.variant = "Encrypted" /\ u.variant = t.variant /\ u.name = t.name /\ u.value # t.value
    /\ \A u \in TagSet(ret.tags) : u.variant = "Encrypted"
    /\ \E t \in TagsOf(Post, RetKey) : t.variant = "PlainText"

\* C7: update_tags of a stored record with tags of distinct names per variant
\* succeeds; afterwards get with retrieveTags returns exactly the tag set T
\* (no earlier tag of either variant is left), and R's value and the other
\* records are unchanged.
C7_UpdateTagsReplaces ==
    /\ (ret.op = "update_tags" /\ OnStored /\ DistinctNames(ret.tags)) => ret.res = "Ok"
    /\ (ret.op = "update_tags" /\ ret.res = "Ok") =>
          /\ Fetch(Post, RetKey).res = "Ok"
          /\ Fetch(Post, RetKey).record[1].tags = Some(TagSet(ret.tags))
          /\ TagsOf(Post, RetKey) = TagSet(ret.tags)
          /\ Fetch(Post, RetKey).record[1].value = Fetch(Pre, RetKey).record[1].value
          /\ Post.items = Pre.items
          /\ OthersUnchanged(Pre, Post, RetKey)

\* C7 witness: update_tags with only an encrypted tag replaced the tags of a
\* record that had an encrypted and a plaintext tag
C7_Witness ==
    /\ ret.op = "update_tags" /\ ret.res = "Ok" /\ Len(ret.tags) = 1
    /\ ret.tags[1].variant = "Encrypted"
    /\ Cardinality(TagsOf(Pre, RetKey)) = 2
    /\ ret.tags[1] \notin TagsOf(Pre, RetKey)

\* the (variant, name) pairs a list of TagNames removes
Listed(tag_names) ==
    {<<IF tag_names[n].variant = "OfEncrypted" THEN "Encrypted" ELSE "PlainText",
       tag_names[n].name>> : n \in 1..Len(tag_names)}

\* C8: delete_tags of a stored record succeeds whatever names are listed and
\* removes exactly the tags whose (variant, name) is listed; the other tags
\* of R, R's value and the other records are unchanged.
C8_DeleteTagsExact ==
    (ret.op = "delete_tags" /\ OnStored) =>
        /\ ret.res = "Ok"
        /\ TagsOf(Post, RetKey)
              = {t \in TagsOf(Pre, RetKey) : <<t.variant, t.name>> \notin Listed(ret.tag_names)}
        /\ Fetch(Post, RetKey).record[1].tags = Some(TagsOf(Post, RetKey))
        /\ Fetch(Post, RetKey).record[1].value = Fetch(Pre, RetKey).record[1].value
        /\ Post.items = Pre.items
        /\ OthersUnchanged(Pre, Post, RetKey)

\* C8 witness: OfEncrypted(n) removed the encrypted tag n of a record and
\* left its plaintext tag n
C8_Witness ==
    /\ ret.op = "delete_tags" /\ ret.res = "Ok"
    /\ Listed(ret.tag_names) = {<<"Encrypted", 1>>}
    /\ Cardinality(TagsOf(Pre, RetKey)) = 2
    /\ Cardinality(TagsOf(Post, RetKey)) = 1

\* C9: in every reachable state each tag table has at most one row per
\* (name, item id), and every tag row carries the id of a stored item.
C9_TagNamesUnique ==
    \A w \in WalletIds :
        LET db == databases[w]
        IN /\ \A r1, r2 \in db.tags_encrypted :
                 (r1.name = r2.name /\ r1.item_id = r2.item_id) => r1 = r2
           /\ \A r1, r2 \in db.tags_plaintext :
                 (r1.name = r2.name /\ r1.item_id = r2.item_id) => r1 = r2
           /\ \A r \in db.tags_encrypted \cup db.tags_plaintext :
                 \E i \in db.items : i.id = r.item_id
           /\ \A k \in Keys : \A t1, t2 \in TagsOf(db, k) :
                 (t1.variant = t2.variant /\ t1.name = t2.name) => t1 = t2

\* C9 witness: a record carries an encrypted and a plaintext tag of the same
\* name after its encrypted tag was given another value
C9_Witness ==
    /\ ret.op = "add_tags" /\ ret.res = "Ok"
    /\ \E t, u \in TagsOf(Post, RetKey) :
          /\ t.variant = "Encrypted" /\ u.variant = "PlainText" /\ t.name = u.name
          /\ t \notin TagsOf(Pre, RetKey) /\ u \in TagsOf(Pre, RetKey)

\* C10: a wallet that exists with its tables has exactly one metadata row;
\* after create_storage(m) and after set_storage_metadata(m)
\* get_storage_metadata returns m (the empty sequence included), and no
\* other call changes the metadata of any wallet.
C10_MetadataSlot ==
    /\ \A w \in WalletIds : databases[w].tables => Cardinality(databases[w].metadata) = 1
    /\ (ret.op = "create_storage" /\ ret.res = "Ok") =>
          get_storage_metadata(Post) = [res |-> "Ok", bytes |-> Some(ret.metadata)]
    /\ (ret.op = "set_storage_metadata" /\ Pre.tables) =>
          /\ ret.res = "Ok"
          /\ get_storage_metadata(Post) = [res |-> "Ok", bytes |-> Some(ret.metadata)]
          /\ Post.items = Pre.items
    /\ (ret.op = "get_storage_metadata" /\ Pre.tables) =>
          /\ ret.res = "Ok"
          /\ ret.bytes = get_storage_metadata(Pre).bytes
    /\ (ret.op \notin {"create_storage", "delete_storage", "set_storage_metadata"}) =>
          \A w \in WalletIds : databases[w].metadata = before[w].metadata

\* C10 witness: the metadata of a wallet that holds a record was replaced by
\* the empty byte sequence
C10_Witness ==
    /\ ret.op = "set_storage_metadata" /\ ret.res = "Ok" /\ ret.metadata = <<>>
    /\ get_storage_metadata(Pre).bytes = Some(<<1, 2>>)
    /\ Post.items # {}

(***************************************************************************)
(* Iterators: get_all, search and PostgresStorageIterator.                 *)
(***************************************************************************)
\* the sequences that list the elements of a set once each: the orders in
\* which a SELECT without ORDER BY can return its rows
Orderings(S) ==
    {f \in [1..Cardinality(S) -> S] : \A m, n \in 1..Cardinality(S) : f[m] = f[n] => m = n}

\* TagRetriever::retrieve: the rows of _PLAIN_TAGS_QUERY, then those of
\* _ENCRYPTED_TAGS_QUERY, as Tags (a Vec in row order, kept as a set)
TagRetriever_retrieve(db, id) ==
    {[variant |-> "PlainText", name |-> r.name, value |-> r.value]
        : r \in {x \in db.tags_plaintext : x.item_id = id}}
    \cup {[variant |-> "Encrypted", name |-> r.name, value |-> r.value]
        : r \in {x \in db.tags_encrypted : x.item_id = id}}

\* PostgresStorageIterator::new that keeps RecordOptions::default() whatever
\* options it is given
PostgresStorageIterator_new_default(conn, rows, options, tag_retriever, total_count) ==
    [conn |-> conn, rows |-> rows, tag_retriever |-> tag_retriever,
     options |-> RecordOptions_default, total_count |-> total_count, iter_count |-> 0]

\* PostgresStorageIterator::new: `rows` is None when no statement is given,
\* else the rows the statement returns when it is run, here, in the order
\* the server returns them
PostgresStorageIterator_new(conn, rows, options, tag_retriever, total_count) ==
    [conn |-> conn, rows |-> rows, tag_retriever |-> tag_retriever, options |-> options,
     total_count |-> total_count, iter_count |-> 0]

\* rows.iter().nth(iter_count), mutated: always the first row
Nth_first(rows, n) == IF rows # <<>> THEN Some(rows[1]) ELSE None

\* rows.iter().nth(iter_count)
Nth(rows, n) == IF n < Len(rows) THEN Some(rows[n + 1]) ELSE None

\* PostgresStorageIterator::next, for an iterator whose connection is to `db`
next(it, db) ==
    IF it.rows = None THEN [res |-> "Ok", record |-> None, it |-> it]
    ELSE LET found == Nth(it.rows[1], it.iter_count)
         IN IF found = None THEN [res |-> "Ok", record |-> None, it |-> it]
            ELSE LET row == found[1]
                     counted == [it EXCEPT !.iter_count = @ + 1]
                     value == IF it.options.retrieve_value
                              THEN Some([data |-> row.value, key |-> row.key]) ELSE None
                     type_ == IF it.options.retrieve_type THEN Some(row.type) ELSE None
                 IN IF it.options.retrieve_tags /\ ~it.tag_retriever
                    THEN [res |-> "InvalidState", record |-> None, it |-> counted]
                    ELSE IF it.options.retrieve_tags /\ ~db.tables
                    THEN [res |-> "IOError", record |-> None, it |-> counted]
                    ELSE LET tags == IF it.options.retrieve_tags
                                     THEN Some(TagRetriever_retrieve(db, row.id)) ELSE None
                         IN [res |-> "Ok",
                             record |-> Some([id |-> row.name, value |-> value,
                                              type_ |-> type_, tags |-> tags]),
                             it |-> counted]

\* PostgresStorageIterator::get_total_count
get_total_count(it) == [res |-> "Ok", count |-> it.total_count]

\* PostgresStorage::get_all on the connection `conn` to `db`; `rows` are the
\* rows of "SELECT id, name, value, key, type FROM items" in the order the
\* server returns them
get_all(conn, db, rows) ==
    IF ~db.tables THEN [res |-> "IOError", it |-> NoIterator]
    ELSE [res |-> "Ok",
          it |-> PostgresStorageIterator_new(conn, Some(rows),
                    [retrieve_type |-> TRUE, retrieve_value |-> TRUE, retrieve_tags |-> TRUE],
                    TRUE, None)]

\* what the properties remember of an iterator besides its fields: the call
\* that made it and its options, for get_all the rows of items at that
\* moment, the (type, id) of the records next has returned, and whether next
\* has returned None
Made(op, search_options, in_wallet) ==
    [op |-> op, search_options |-> search_options, in_wallet |-> in_wallet,
     yielded |-> <<>>, done |-> FALSE]

Live == {i \in IterIds : iterators[i] # NoIterator}

GetAll(h, i) ==
    /\ ret = Idle
    /\ before' = databases
    /\ iter_before' = iterators
    /\ h \in Open
    /\ i \notin Live
    /\ LET db == databases[storages[h]]
       IN \E rows \in Orderings(db.items) :
             LET r == get_all(storages[h], db, rows)
             IN /\ iterators' = [iterators EXCEPT ![i] =
                                    IF r.res = "Ok"
                                    THEN r.it @@ Made("get_all", <<>>, db.items)
                                    ELSE NoIterator]
                /\ ret' = [Idle EXCEPT !.op = "get_all", !.h = h, !.wid = storages[h],
                                       !.it = i, !.res = r.res]
    /\ UNCHANGED <<databases, storages, ffi_vars, kv_vars, rec_vars, inmem_vars, conc_vars>>

IteratorNext(i) ==
    /\ ret = Idle
    /\ before' = databases
    /\ iter_before' = iterators
    /\ i \in Live
    /\ LET it == iterators[i]
           r == next(it, databases[it.conn])
       IN /\ iterators' = [iterators EXCEPT ![i] =
                              [f \in DOMAIN it |->
                                  IF f = "yielded"
                                  THEN IF r.record # None
                                       THEN Append(it.yielded, <<r.record[1].type_, r.record[1].id>>)
                                       ELSE it.yielded
                                  ELSE IF f = "done" THEN it.done \/ (r.res = "Ok" /\ r.record = None)
                                  ELSE IF f \in DOMAIN r.it THEN r.it[f]
                                  ELSE it[f]]]
          /\ ret' = [Idle EXCEPT !.op = "next", !.it = i, !.wid = it.conn, !.res = r.res,
                                 !.record = r.record]
    /\ UNCHANGED <<databases, storages, ffi_vars, kv_vars, rec_vars, inmem_vars, conc_vars>>

GetTotalCount(i) ==
    /\ ret = Idle
    /\ before' = databases
    /\ iter_before' = iterators
    /\ i \in Live
    /\ LET r == get_total_count(iterators[i])
       IN ret' = [Idle EXCEPT !.op = "get_total_count", !.it = i, !.wid = iterators[i].conn,
                              !.res = r.res, !.count = r.count]
    /\ UNCHANGED <<databases, storages, iterators, ffi_vars, kv_vars, rec_vars, inmem_vars, conc_vars>>

\* the Box<StorageIterator> goes out of scope
DropIterator(i) ==
    /\ ret = Idle
    /\ before' = databases
    /\ iter_before' = iterators
    /\ i \in Live
    /\ iterators' = [iterators EXCEPT ![i] = NoIterator]
    /\ ret' = [Idle EXCEPT !.op = "drop_iterator", !.it = i, !.wid = iterators[i].conn,
                           !.res = "Ok"]
    /\ UNCHANGED <<databases, storages, ffi_vars, kv_vars, rec_vars, inmem_vars, conc_vars>>

(***************************************************************************)
(* The tag-query language and its compilation to SQL (language::Operator,  *)
(* query::wql_to_sql, query::wql_to_sql_count).                            *)
(***************************************************************************)
\* atoms over the tag name of the model: equality and inequality on the
\* encrypted tag, equality and IN on the plaintext tag ("~" names)
Eq(variant, name, value) == [op |-> "eq", variant |-> variant, name |-> name, value |-> value]
Neq(variant, name, value) == [op |-> "neq", variant |-> variant, name |-> name, value |-> value]
In(variant, name, values) == [op |-> "in", variant |-> variant, name |-> name, values |-> values]
And(children) == [op |-> "and", children |-> children]
Or(children) == [op |-> "or", children |-> children]
Not(child) == [op |-> "not", child |-> child]

QueryAtoms ==
    {Eq("Encrypted", 1, 3), Eq("PlainText", 1, 5), Neq("Encrypted", 1, 3),
     In("PlainText", 1, <<5, 6>>)}
QueryPairs ==
    {And(<<a, b>>) : a, b \in {Eq("Encrypted", 1, 3), Eq("PlainText", 1, 5)}}
    \cup {Or(<<a, b>>) : a, b \in {Eq("Encrypted", 1, 3), Eq("PlainText", 1, 5)}}
\* the queries search is called with; And(<<>>) is the one the compiler rejects
Queries ==
    QueryAtoms \cup QueryPairs \cup {Not(q) : q \in QueryAtoms \cup QueryPairs} \cup {And(<<>>)}

\* the tag table an atom selects from
TagTable(variant) == IF variant = "Encrypted" THEN "tags_encrypted" ELSE "tags_plaintext"

\* "NOT (...)" around a compiled subquery
negate(sql) == [node |-> "not", child |-> sql]

\* the compiler on one node: the condition it compiles to, with values
\* bound by position in `args` (the parameters bound so far, extended by
\* those this node binds); ok is FALSE for a node the compiler rejects
RECURSIVE operator_to_sql(_, _)
operator_to_sql(q, args) ==
    CASE q.op \in {"eq", "neq"} ->
            [ok |-> TRUE,
             sql |-> [node |-> "exists", table |-> TagTable(q.variant),
                      cmp |-> IF q.op = "eq" THEN "=" ELSE "!=",
                      name |-> Len(args) + 1, values |-> <<Len(args) + 2>>],
             args |-> args \o <<q.name, q.value>>]
      [] q.op = "in" ->
            [ok |-> q.values # <<>>,
             sql |-> [node |-> "exists", table |-> TagTable(q.variant), cmp |-> "IN",
                      name |-> Len(args) + 1,
                      values |-> [n \in 1..Len(q.values) |-> Len(args) + 1 + n]],
             args |-> args \o <<q.name>> \o q.values]
      [] q.op = "not" ->
            LET c == operator_to_sql(q.child, args)
            IN [ok |-> c.ok, sql |-> negate(c.sql), args |-> c.args]
      [] q.op \in {"and", "or"} ->
            IF q.children = <<>>
            THEN [ok |-> FALSE, sql |-> [node |-> q.op, children |-> <<>>], args |-> args]
            ELSE LET first == operator_to_sql(Head(q.children), args)
                 IN IF Len(q.children) = 1
                    THEN [ok |-> first.ok, sql |-> [node |-> q.op, children |-> <<first.sql>>],
                          args |-> first.args]
                    ELSE LET rest == operator_to_sql([q EXCEPT !.children = Tail(@)], first.args)
                         IN [ok |-> first.ok /\ rest.ok,
                             sql |-> [node |-> q.op, children |-> <<first.sql>> \o rest.sql.children],
                             args |-> rest.args]

\* wql_to_sql, mutated: the type filter is left out of the condition
wql_to_sql_untyped(type_, query, options) ==
    LET c == operator_to_sql(query, <<type_>>)
    IN [res |-> IF c.ok THEN "Ok" ELSE "InvalidStructure",
        query_string |-> [select |-> "rows", where |-> c.sql],
        query_arguments |-> c.args]

\* query::wql_to_sql: "SELECT id, name, value, key, type FROM items WHERE
\* type = $1 AND (<condition>)", the type being the first parameter
wql_to_sql(type_, query, options) ==
    LET c == operator_to_sql(query, <<type_>>)
    IN [res |-> IF c.ok THEN "Ok" ELSE "InvalidStructure",
        query_string |-> [select |-> "rows",
                          where |-> [node |-> "and",
                                     children |-> <<[node |-> "type", value |-> 1], c.sql>>]],
        query_arguments |-> c.args]

\* query::wql_to_sql_count: the same condition under "SELECT count(*)"
wql_to_sql_count(type_, query) ==
    LET c == operator_to_sql(query, <<type_>>)
    IN [res |-> IF c.ok THEN "Ok" ELSE "InvalidStructure",
        query_string |-> [select |-> "count",
                          where |-> [node |-> "and",
                                     children |-> <<[node |-> "type", value |-> 1], c.sql>>]],
        query_arguments |-> c.args]

\* the server evaluating a compiled condition on one row of items
RECURSIVE Where(_, _, _, _)
Where(db, sql, args, item) ==
    CASE sql.node = "type" -> item.type = args[sql.value]
      [] sql.node = "exists" ->
            \E t \in db[sql.table] :
                /\ t.item_id = item.id
                /\ t.name = args[sql.name]
                /\ (CASE sql.cmp = "=" -> t.value = args[sql.values[1]]
                      [] sql.cmp = "!=" -> t.value # args[sql.values[1]]
                      [] sql.cmp = "IN" ->
                            \E n \in 1..Len(sql.values) : t.value = args[sql.values[n]])
      [] sql.node = "not" -> ~Where(db, sql.child, args, item)
      [] sql.node = "and" ->
            \A n \in 1..Len(sql.children) : Where(db, sql.children[n], args, item)
      [] sql.node = "or" ->
            \E n \in 1..Len(sql.children) : Where(db, sql.children[n], args, item)

\* the rows of items a compiled statement selects
Query(db, compiled) ==
    {item \in db.items : Where(db, compiled.query_string.where, compiled.query_arguments, item)}

\* SearchOptions { retrieve_records, retrieve_total_count, retrieve_type,
\* retrieve_value, retrieve_tags }: the default, everything, the count alone,
\* and nothing
SearchOptions_default ==
    [retrieve_records |-> TRUE, retrieve_total_count |-> FALSE, retrieve_type |-> FALSE,
     retrieve_value |-> TRUE, retrieve_tags |-> FALSE]
SearchOptionsSet ==
    {SearchOptions_default,
     [retrieve_records |-> TRUE, retrieve_total_count |-> TRUE, retrieve_type |-> TRUE,
      retrieve_value |-> TRUE, retrieve_tags |-> TRUE],
     [retrieve_records |-> FALSE, retrieve_total_count |-> TRUE, retrieve_type |-> FALSE,
      retrieve_value |-> TRUE, retrieve_tags |-> FALSE],
     [retrieve_records |-> FALSE, retrieve_total_count |-> FALSE, retrieve_type |-> FALSE,
      retrieve_value |-> TRUE, retrieve_tags |-> FALSE]}

\* search, mutated: the count is taken whether it was asked for or not
CountWanted_always(search_options) == TRUE

\* "if search_options.retrieve_total_count"
CountWanted(search_options) == search_options.retrieve_total_count

\* search, mutated: the statement is run whether records were asked for or not
RecordsWanted_always(search_options) == TRUE

\* "if search_options.retrieve_records"
RecordsWanted(search_options) == search_options.retrieve_records

\* the total_count of search: the row of the COUNT(*) statement
TotalCount(db, type_, query, search_options) ==
    IF CountWanted(search_options)
    THEN LET c == wql_to_sql_count(type_, query)
         IN IF c.res # "Ok" THEN [res |-> c.res, total_count |-> None]
            ELSE IF ~db.tables THEN [res |-> "panic", total_count |-> None]
            ELSE [res |-> "Ok", total_count |-> Some(Cardinality(Query(db, c)))]
    ELSE [res |-> "Ok", total_count |-> None]

\* PostgresStorage::search on the connection `conn` to `db`; `rows` are the
\* rows of the compiled statement in the order the server returns them
search(conn, db, type_, query, search_options, rows) ==
    LET counted == TotalCount(db, type_, query, search_options)
    IN IF counted.res # "Ok" THEN [res |-> counted.res, it |-> NoIterator]
       ELSE IF RecordsWanted(search_options)
       THEN LET c == wql_to_sql(type_, query, search_options)
            IN IF c.res # "Ok" THEN [res |-> c.res, it |-> NoIterator]
               ELSE IF ~db.tables THEN [res |-> "IOError", it |-> NoIterator]
               ELSE [res |-> "Ok",
                     it |-> PostgresStorageIterator_new(conn, Some(rows),
                               [retrieve_type |-> search_options.retrieve_type,
                                retrieve_value |-> search_options.retrieve_value,
                                retrieve_tags |-> search_options.retrieve_tags],
                               search_options.retrieve_tags, counted.total_count)]
       ELSE [res |-> "Ok",
             it |-> PostgresStorageIterator_new(conn, None, RecordOptions_default, FALSE,
                                                counted.total_count)]

Search(h, i, type_, query, search_options) ==
    /\ ret = Idle
    /\ before' = databases
    /\ iter_before' = iterators
    /\ h \in Open
    /\ i \notin Live
    /\ LET db == databases[storages[h]]
           c == wql_to_sql(type_, query, search_options)
           selected == IF c.res = "Ok" /\ db.tables THEN Query(db, c) ELSE {}
       IN \E rows \in Orderings(selected) :
             LET r == search(storages[h], db, type_, query, search_options, rows)
             IN /\ iterators' = [iterators EXCEPT ![i] =
                                    IF r.res = "Ok"
                                    THEN r.it @@ Made("search", search_options, {})
                                    ELSE NoIterator]
                /\ ret' = [Idle EXCEPT !.op = "search", !.h = h, !.wid = storages[h],
                                       !.it = i, !.type_ = type_, !.query = query,
                                       !.search_options = search_options, !.res = r.res]
    /\ UNCHANGED <<databases, storages, ffi_vars, kv_vars, rec_vars, inmem_vars, conc_vars>>

\* one wallet, one handle, records (here also _id2() under _type1(), so that
\* a type can hold two) added and deleted while iterators made by get_all and
\* search are read
IterSpecNext ==
    \/ \E m \in {<<1, 2>>} : CreateStorage("walle1", m)
    \/ \E h \in Handles : OpenStorage(h, "walle1")
    \/ \E h \in Handles, k \in Keys, v \in {[data |-> 7, key |-> 10]}, tags \in TagLists :
          Add(h, k[1], k[2], v, tags)
    \/ \E h \in Handles, k \in Keys : Delete(h, k[1], k[2])
    \/ \E h \in Handles, i \in IterIds : GetAll(h, i)
    \/ \E h \in Handles, i \in IterIds, type_ \in {1, 2}, q \in Queries, o \in SearchOptionsSet :
          Search(h, i, type_, q, o)
    \/ \E i \in IterIds : IteratorNext(i)
    \/ \E i \in IterIds : GetTotalCount(i)
    \/ \E i \in IterIds : DropIterator(i)
    \/ Return

IterSpec == Init /\ [][IterSpecNext]_vars

(***************************************************************************)
(* C11..C14: iterators.                                                    *)
(***************************************************************************)
\* the tags stored under an item id, read from the two tag tables
TagsUnder(db, item_id) ==
    {[variant |-> "Encrypted", name |-> t.name, value |-> t.value]
        : t \in {x \in db.tags_encrypted : x.item_id = item_id}}
    \cup {[variant |-> "PlainText", name |-> t.name, value |-> t.value]
        : t \in {x \in db.tags_plaintext : x.item_id = item_id}}

\* a tag set satisfies a query
RECURSIVE Satisfies(_, _)
Satisfies(tags, q) ==
    CASE q.op = "eq" ->
            \E t \in tags : t.variant = q.variant /\ t.name = q.name /\ t.value = q.value
      [] q.op = "neq" ->
            \E t \in tags : t.variant = q.variant /\ t.name = q.name /\ t.value # q.value
      [] q.op = "in" ->
            \E t \in tags : /\ t.variant = q.variant /\ t.name = q.name
                            /\ \E n \in 1..Len(q.values) : t.value = q.values[n]
      [] q.op = "not" -> ~Satisfies(tags, q.child)
      [] q.op = "and" -> \A n \in 1..Len(q.children) : Satisfies(tags, q.children[n])
      [] q.op = "or" -> \E n \in 1..Len(q.children) : Satisfies(tags, q.children[n])

\* the records of a type whose tags satisfy a query
Matching(db, type_, q) ==
    {r \in db.items : r.type = type_ /\ Satisfies(TagsUnder(db, r.id), q)}

\* the records an iterator returns when next is called until it returns None
RECURSIVE Drain(_, _)
Drain(it, db) ==
    LET r == next(it, db)
    IN IF r.record = None THEN {} ELSE {r.record[1]} \cup Drain(r.it, db)

\* the ids of the records an iterator made by search(type, q) yields
YieldsOf(db, type_, q) ==
    LET c == wql_to_sql(type_, q, SearchOptions_default)
        rows == CHOOSE o \in Orderings(Query(db, c)) : TRUE
        r == search("walle1", db, type_, q, SearchOptions_default, rows)
    IN {rec.id : rec \in Drain(r.it, db)}

\* the iterator the call in ret was made on, before and after the call
ItBefore == iter_before[ret.it]
ItAfter == iterators[ret.it]

\* C11: a get_all iterator never returns a (type, id) twice, returns only
\* records that were in the wallet when it was made, each with its type, its
\* value and the tags stored under it when it is returned, has returned every
\* one of them once next has returned None, and next returns None ever after.
C11_GetAllYieldsOnce ==
    /\ \A i \in Live :
          iterators[i].op = "get_all" =>
             LET it == iterators[i]
                 keys == {<<Some(r.type), r.name>> : r \in it.in_wallet}
             IN /\ \A m, n \in 1..Len(it.yielded) : it.yielded[m] = it.yielded[n] => m = n
                /\ \A n \in 1..Len(it.yielded) : it.yielded[n] \in keys
                /\ it.done => {it.yielded[n] : n \in 1..Len(it.yielded)} = keys
    /\ (ret.op = "next" /\ ItBefore.op = "get_all" /\ Pre.tables) =>
          /\ ret.res = "Ok"
          /\ ItBefore.done => ret.record = None
          /\ ret.record # None =>
                \E r \in ItBefore.in_wallet :
                    ret.record[1] = [id |-> r.name, type_ |-> Some(r.type),
                                     value |-> Some([data |-> r.value, key |-> r.key]),
                                     tags |-> Some(TagsUnder(Post, r.id))]

\* C11 witness: a get_all iterator over two records, one of them with tags,
\* has returned both and then None twice
C11_Witness ==
    /\ ret.op = "next" /\ ret.record = None /\ ItBefore.op = "get_all" /\ ItBefore.done
    /\ Len(ItAfter.yielded) = 2
    /\ \E r \in ItAfter.in_wallet : TagsUnder(Post, r.id) # {}

\* C12: a search that returns records yields exactly the records of the
\* given type whose tags satisfy the query, and search(type, NOT(Q)) yields
\* exactly the records of that type that search(type, Q) does not.
C12_SearchMatches ==
    (ret.op = "search" /\ ret.res = "Ok" /\ ret.search_options.retrieve_records) =>
        LET yields == Drain(ItAfter, Post)
            typed == {r \in Pre.items : r.type = ret.type_}
        IN /\ {rec.id : rec \in yields} = {r.name : r \in Matching(Pre, ret.type_, ret.query)}
           /\ Cardinality(yields) = Cardinality(Matching(Pre, ret.type_, ret.query))
           /\ YieldsOf(Post, ret.type_, ret.query) = {rec.id : rec \in yields}
           /\ YieldsOf(Post, ret.type_, Not(ret.query))
                 = {r.name : r \in typed} \ YieldsOf(Post, ret.type_, ret.query)

\* C12 witness: of two records of the type one matches the query, while a
\* search of the other type yields nothing
C12_Witness ==
    /\ ret.op = "search" /\ ret.res = "Ok" /\ ret.search_options.retrieve_records
    /\ ret.query = And(<<Eq("Encrypted", 1, 3), Eq("PlainText", 1, 5)>>)
    /\ Cardinality({r \in Pre.items : r.type = ret.type_}) = 2
    /\ Cardinality(Drain(ItAfter, Post)) = 1

\* C13: search gives its iterator Some(number of matching records) as total
\* count exactly when retrieveTotalCount was asked, get_all gives None;
\* get_total_count returns that value, and no later call (next, add, delete)
\* changes it.
C13_TotalCountCached ==
    /\ (ret.op = "search" /\ ret.res = "Ok") =>
          ItAfter.total_count =
             IF ret.search_options.retrieve_total_count
             THEN Some(Cardinality(Matching(Pre, ret.type_, ret.query))) ELSE None
    /\ (ret.op = "get_all" /\ ret.res = "Ok") => ItAfter.total_count = None
    /\ ret.op = "get_total_count" =>
          /\ ret.res = "Ok"
          /\ ret.count = ItBefore.total_count
          /\ ItBefore.op = "get_all" => ret.count = None
          /\ ItBefore.op = "search" =>
                (ret.count # None <=> ItBefore.search_options.retrieve_total_count)
    /\ \A i \in Live : iter_before[i] # NoIterator =>
          iterators[i].total_count = iter_before[i].total_count

\* C13 witness: get_total_count returns Some(2) after next was called and
\* after a record was deleted
C13_Witness ==
    /\ ret.op = "get_total_count" /\ ret.count = Some(2)
    /\ ItBefore.iter_count > 0
    /\ Cardinality(Post.items) < 2

\* C14: on an iterator of a search with retrieveRecords false every next
\* returns None, and its total count is the number of matching records if
\* retrieveTotalCount was asked (None if not).
C14_NoRecords ==
    /\ (ret.op = "next" /\ ItBefore.op = "search"
            /\ ~ItBefore.search_options.retrieve_records) =>
          ret.res = "Ok" /\ ret.record = None /\ ItAfter.yielded = <<>>
    /\ (ret.op = "search" /\ ret.res = "Ok" /\ ~ret.search_options.retrieve_records) =>
          /\ Drain(ItAfter, Post) = {}
          /\ get_total_count(ItAfter).count =
                IF ret.search_options.retrieve_total_count
                THEN Some(Cardinality(Matching(Pre, ret.type_, ret.query))) ELSE None

\* C14 witness: next returned None on an iterator of a search without
\* records whose total count is 2
C14_Witness ==
    /\ ret.op = "next" /\ ret.record = None /\ ItBefore.op = "search"
    /\ ~ItBefore.search_options.retrieve_records
    /\ get_total_count(ItAfter).count = Some(2)

(***************************************************************************)
(* Storage type calls on wallets that exist already or do not exist.       *)
(***************************************************************************)
\* C15: create_storage of a wallet id whose database exists returns
\* AlreadyExists and leaves the metadata and the records of that wallet, and
\* every other wallet, as they were.
C15_CreateExisting ==
    (ret.op = "create_storage" /\ Pre.exists) =>
        /\ ret.res = "AlreadyExists"
        /\ Post.metadata = Pre.metadata
        /\ Post.items = Pre.items
        /\ databases = before

\* C15 witness: create_storage with other metadata was called on a wallet
\* that holds a tagged record
C15_Witness ==
    /\ ret.op = "create_storage" /\ ret.res = "AlreadyExists"
    /\ Pre.items # {} /\ Pre.tags_encrypted # {}
    /\ \A r \in Pre.metadata : r.value # ret.metadata

\* C16: open_storage of a wallet id that has no database (never created, or
\* deleted) fails with NotFound and gives no storage.
C16_OpenMissingNotFound ==
    (ret.op = "open_storage" /\ ~Pre.exists) =>
        /\ ret.res = "NotFound"
        /\ storages[ret.h] = NoStorage

\* C17: delete_storage of a wallet id that has no database fails with
\* NotFound and leaves every wallet as it was.
C17_DeleteMissingNotFound ==
    (ret.op = "delete_storage" /\ ~Pre.exists) =>
        /\ ret.res = "NotFound"
        /\ databases = before

(***************************************************************************)
(* The storage plug-in (postgres_wallet.rs): the postgreswallet_fn_*       *)
(* functions, called from several threads, over the table                  *)
(* POSTGRES_OPEN_WALLETS of open wallets and its mutex.                    *)
(***************************************************************************)
XHandles == 1..MaxOpens

\* the tags_json values add_record is called with: JSON objects, that is,
\* at most one value per key ("name" for an encrypted tag, "~name" for a
\* plaintext one)
TagsJson ==
    {j \in SUBSET Tags :
        /\ Cardinality(j) <= MaxTags
        /\ \A a, b \in j : (a.variant = b.variant /\ a.name = b.name) => a = b}

\* _tags_from_json: the object is read into a HashMap and the tags are
\* pushed in the order the map is walked, which is any order
_tags_from_json(json) == Orderings(json)

\* the mutex after a thread panicked while holding it
Poisoned == -1

\* a mutex that any thread can take at any time
MutexFree_always(m) == TRUE

\* POSTGRES_OPEN_WALLETS.lock() returns when no thread holds the mutex
MutexFree(m) == m = 0

\* SequenceUtils::get_next_id
get_next_id(seq) == seq + 1

\* the loop of postgreswallet_fn_open over the open wallets
IsOpened(handles, id) == \E x \in DOMAIN handles : handles[x].id = id

\* HashMap::insert and HashMap::remove
Insert(handles, xhandle, context) ==
    [x \in DOMAIN handles \cup {xhandle} |-> IF x = xhandle THEN context ELSE handles[x]]
Remove(handles, xhandle) == [x \in DOMAIN handles \ {xhandle} |-> handles[x]]

\* postgreswallet_fn_create: create_storage(..).unwrap() panics on any error
postgreswallet_fn_create(dbs, id, metadata) ==
    LET r == create_storage(dbs, id, metadata)
    IN [res |-> IF r.res = "Ok" THEN "Success" ELSE "panic", dbs |-> r.dbs]

\* postgreswallet_fn_open after the loop has not found the id
postgreswallet_fn_open(handles, dbs, seq, id) ==
    LET r == open_storage(dbs, id)
        xhandle == get_next_id(seq)
    IN IF r.res # "Ok"
       THEN [res |-> "WalletNotFoundError", handles |-> handles, seq |-> seq, xhandle |-> 0]
       ELSE [res |-> "Success",
             handles |-> Insert(handles, xhandle,
                                [xhandle |-> xhandle, id |-> id, phandle |-> r.conn]),
             seq |-> xhandle, xhandle |-> xhandle]

\* fn _key(i): vec![i; ENCRYPTED_KEY_LEN]
_key(i) == [j \in 1..ENCRYPTED_KEY_LEN |-> i]

\* fn _value(i): EncryptedValue { data: vec![6 + i, 7 + i, 8 + i], key: _key(i) }
_value(i) == [data |-> <<6 + i, 7 + i, 8 + i>>, key |-> _key(i)]

\* EncryptedValue::to_bytes, with the data in front of the key
to_bytes_data_first(value) == value.data \o value.key

\* EncryptedValue::to_bytes: the key, then the data
to_bytes(value) == value.key \o value.data

\* EncryptedValue::from_bytes: the first ENCRYPTED_KEY_LEN bytes are the key,
\* the rest is the data; fewer bytes than a key are an error
from_bytes(joined_data) ==
    IF Len(joined_data) < ENCRYPTED_KEY_LEN THEN [ok |-> FALSE, value |-> NoValue]
    ELSE [ok |-> TRUE,
          value |-> [data |-> SubSeq(joined_data, ENCRYPTED_KEY_LEN + 1, Len(joined_data)),
                     key |-> SubSeq(joined_data, 1, ENCRYPTED_KEY_LEN)]]

\* postgreswallet_fn_add_record; `value` is the byte array of the call.
\* EncryptedValue::from_bytes(&value).unwrap() panics on an array shorter
\* than a key.
postgreswallet_fn_add_record(handles, dbs, xhandle, type_, id, value, tags) ==
    IF xhandle \notin DOMAIN handles THEN [res |-> "CommonInvalidState", dbs |-> dbs]
    ELSE IF ~from_bytes(value).ok THEN [res |-> "panic", dbs |-> dbs]
    ELSE LET w == handles[xhandle].phandle
             r == add(dbs[w], type_, id, from_bytes(value).value, tags)
         IN [res |-> CASE r.res = "Ok" -> "Success"
                       [] r.res = "ItemAlreadyExists" -> "WalletItemAlreadyExists"
                       [] OTHER -> "WalletStorageError",
             dbs |-> [dbs EXCEPT ![w] = r.db]]

\* postgreswallet_fn_close: the context is taken out of the table, close is
\* called on its storage, and the storage is dropped with the context
postgreswallet_fn_close(handles, xhandle) ==
    IF xhandle \notin DOMAIN handles
    THEN [res |-> "CommonInvalidState", handles |-> handles]
    ELSE [res |-> "Success", handles |-> Remove(handles, xhandle)]

\* postgreswallet_fn_delete that leaves the database in place
postgreswallet_fn_delete_keep(dbs, sessions, id) == [res |-> "Success", dbs |-> dbs]

\* postgreswallet_fn_delete
postgreswallet_fn_delete(dbs, sessions, id) ==
    LET r == delete_storage(dbs, sessions, id)
    IN [res |-> IF r.res = "Ok" THEN "Success" ELSE "WalletStorageError", dbs |-> r.dbs]

\* the call a thread has completed, as ret holds it
Called(op, t, id, xhandle, res) ==
    [Idle EXCEPT !.op = op, !.t = t, !.wid = id, !.xhandle = xhandle, !.res = res,
                 !.handles = POSTGRES_OPEN_WALLETS, !.records = POSTGRES_ACTIVE_RECORDS]

\* postgreswallet_fn_create. The panic of unwrap() leaves the extern "C"
\* function by unwinding into the caller or by aborting the process.
FnCreate(t, id, metadata) ==
    /\ ret = Idle
    /\ pc[t] = Outside
    /\ before' = databases
    /\ LET r == postgreswallet_fn_create(databases, id, metadata)
       IN /\ databases' = r.dbs
          /\ \E outcome \in IF r.res = "panic" THEN {"unwind", "abort"} ELSE {r.res} :
                /\ ret' = [Called("fn_create", t, id, 0, outcome) EXCEPT !.metadata = metadata]
                /\ pc' = IF outcome = "abort" THEN [u \in Threads |-> Aborted] ELSE pc
    /\ UNCHANGED <<storages, iter_vars, kv_vars, rec_vars, inmem_vars, conc_vars, POSTGRES_OPEN_WALLETS, sequence, mutex>>

\* a thread calls postgreswallet_fn_open
FnOpen(t, id) ==
    /\ ret = Idle
    /\ pc[t] = Outside
    /\ pc' = [pc EXCEPT ![t] = [at |-> "open", id |-> id, xhandle |-> 0]]
    /\ UNCHANGED <<databases, storages, ret, before, iter_vars, kv_vars, rec_vars, inmem_vars, conc_vars, POSTGRES_OPEN_WALLETS,
                   sequence, mutex>>

\* postgreswallet_fn_open, "let mut handles = POSTGRES_OPEN_WALLETS.lock().unwrap()"
FnOpenLock(t) ==
    /\ ret = Idle
    /\ pc[t].at = "open"
    /\ MutexFree(mutex)
    /\ sequence < MaxOpens
    /\ mutex' = t
    /\ pc' = [pc EXCEPT ![t].at = "open_locked"]
    /\ UNCHANGED <<databases, storages, ret, before, iter_vars, kv_vars, rec_vars, inmem_vars, conc_vars, POSTGRES_OPEN_WALLETS, sequence>>

\* postgreswallet_fn_open, "check if we have opened this wallet already"
FnOpenCheck(t) ==
    /\ pc[t].at = "open_locked"
    /\ ret = Idle
    /\ IF IsOpened(POSTGRES_OPEN_WALLETS, pc[t].id)
       THEN /\ ret' = Called("fn_open", t, pc[t].id, 0, "WalletAlreadyOpenedError")
            /\ before' = databases
            /\ mutex' = 0
            /\ pc' = [pc EXCEPT ![t] = Outside]
       ELSE /\ pc' = [pc EXCEPT ![t].at = "open_checked"]
            /\ UNCHANGED <<ret, before, mutex>>
    /\ UNCHANGED <<databases, storages, iter_vars, kv_vars, rec_vars, inmem_vars, conc_vars, POSTGRES_OPEN_WALLETS, sequence>>

\* postgreswallet_fn_open from "open the wallet" to the return
FnOpenInsert(t) ==
    /\ pc[t].at = "open_checked"
    /\ ret = Idle
    /\ before' = databases
    /\ LET r == postgreswallet_fn_open(POSTGRES_OPEN_WALLETS, databases, sequence, pc[t].id)
       IN /\ POSTGRES_OPEN_WALLETS' = r.handles
          /\ sequence' = r.seq
          /\ ret' = Called("fn_open", t, pc[t].id, r.xhandle, r.res)
    /\ mutex' = 0
    /\ pc' = [pc EXCEPT ![t] = Outside]
    /\ UNCHANGED <<databases, storages, iter_vars, kv_vars, rec_vars, inmem_vars, conc_vars>>

\* postgreswallet_fn_add_record; the mutex is held from the first statement
\* that reads the table to the return. A panic leaves the function by
\* unwinding, which drops the guard of a mutex that is poisoned from then on
\* (no later lock().unwrap() returns), or by aborting the process.
FnAddRecord(t, xhandle, type_, id, value, tags_json) ==
    /\ ret = Idle
    /\ pc[t] = Outside
    /\ MutexFree(mutex)
    /\ before' = databases
    /\ \E tags \in _tags_from_json(tags_json) :
          LET r == postgreswallet_fn_add_record(POSTGRES_OPEN_WALLETS, databases, xhandle,
                                                type_, id, value, tags)
          IN /\ \A w \in WalletIds : r.dbs[w].seq <= MaxSeq
             /\ databases' = r.dbs
             /\ \E outcome \in IF r.res = "panic" THEN {"unwind", "abort"} ELSE {r.res} :
                   /\ ret' = [Called("fn_add_record", t,
                                     IF xhandle \in DOMAIN POSTGRES_OPEN_WALLETS
                                     THEN POSTGRES_OPEN_WALLETS[xhandle].id ELSE "", xhandle,
                                     outcome)
                                EXCEPT !.type_ = type_, !.id = id, !.bytes = Some(value),
                                       !.tags = tags]
                   /\ pc' = IF outcome = "abort" THEN [u \in Threads |-> Aborted] ELSE pc
                   /\ mutex' = IF outcome = "unwind" THEN Poisoned ELSE mutex
    /\ UNCHANGED <<storages, iter_vars, kv_vars, rec_vars, inmem_vars, conc_vars, POSTGRES_OPEN_WALLETS, sequence>>

\* a thread calls postgreswallet_fn_close
FnClose(t, xhandle) ==
    /\ ret = Idle
    /\ pc[t] = Outside
    /\ pc' = [pc EXCEPT ![t] = [at |-> "close", id |-> "", xhandle |-> xhandle]]
    /\ UNCHANGED <<databases, storages, ret, before, iter_vars, kv_vars, rec_vars, inmem_vars, conc_vars, POSTGRES_OPEN_WALLETS,
                   sequence, mutex>>

\* postgreswallet_fn_close, "let mut handles = POSTGRES_OPEN_WALLETS.lock().unwrap()"
FnCloseLock(t) ==
    /\ ret = Idle
    /\ pc[t].at = "close"
    /\ MutexFree(mutex)
    /\ mutex' = t
    /\ pc' = [pc EXCEPT ![t].at = "close_locked"]
    /\ UNCHANGED <<databases, storages, ret, before, iter_vars, kv_vars, rec_vars, inmem_vars, conc_vars, POSTGRES_OPEN_WALLETS, sequence>>

\* postgreswallet_fn_close from contains_key to the return
FnCloseBody(t) ==
    /\ pc[t].at = "close_locked"
    /\ ret = Idle
    /\ before' = databases
    /\ LET xhandle == pc[t].xhandle
           r == postgreswallet_fn_close(POSTGRES_OPEN_WALLETS, xhandle)
       IN /\ POSTGRES_OPEN_WALLETS' = r.handles
          /\ ret' = Called("fn_close", t,
                           IF xhandle \in DOMAIN POSTGRES_OPEN_WALLETS
                           THEN POSTGRES_OPEN_WALLETS[xhandle].id ELSE "", xhandle, r.res)
    /\ mutex' = 0
    /\ pc' = [pc EXCEPT ![t] = Outside]
    /\ UNCHANGED <<databases, storages, iter_vars, kv_vars, rec_vars, inmem_vars, conc_vars, sequence>>

\* postgreswallet_fn_delete
FnDelete(t, id) ==
    /\ ret = Idle
    /\ pc[t] = Outside
    /\ before' = databases
    /\ LET r == postgreswallet_fn_delete(databases, Sessions(id), id)
       IN /\ databases' = r.dbs
          /\ ret' = Called("fn_delete", t, id, 0, r.res)
    /\ UNCHANGED <<storages, iter_vars, kv_vars, rec_vars, inmem_vars, conc_vars, ffi_vars>>

FfiNext ==
    \/ \E t \in Threads, id \in CreatableIds, m \in MetaValues : FnCreate(t, id, m)
    \/ \E t \in Threads, id \in WalletIds : FnOpen(t, id)
    \/ \E t \in Threads : FnOpenLock(t)
    \/ \E t \in Threads : FnOpenCheck(t)
    \/ \E t \in Threads : FnOpenInsert(t)
    \/ \E t \in Threads, x \in XHandles, j \in TagsJson :
          FnAddRecord(t, x, 1, 1, to_bytes(_value(1)), j)
    \/ \E t \in Threads, x \in XHandles : FnClose(t, x)
    \/ \E t \in Threads : FnCloseLock(t)
    \/ \E t \in Threads : FnCloseBody(t)
    \/ \E t \in Threads, id \in WalletIds : FnDelete(t, id)
    \/ Return

FfiSpec == Init /\ [][FfiNext]_vars

\* the table of open wallets when the call in ret was completed
HandlesBefore == ret.handles

\* C18: a wallet's database comes into existence only by a
\* postgreswallet_fn_create that returns Success; postgreswallet_fn_open of
\* an id that has no database returns WalletNotFoundError, and of an id that
\* has one and is not open returns Success with a handle in the table;
\* postgreswallet_fn_create of an id that has no database, the close of an
\* open handle and postgreswallet_fn_delete return Success, and after the
\* delete of an id that is not open the id has no database.
C18_Lifecycle ==
    /\ \A w \in WalletIds :
          (databases[w].exists /\ ~before[w].exists) =>
              ret.op = "fn_create" /\ ret.wid = w /\ ret.res = "Success"
    /\ ret.op = "fn_open" =>
          /\ ~Pre.exists => ret.res = "WalletNotFoundError" /\ POSTGRES_OPEN_WALLETS = HandlesBefore
          /\ (Pre.exists /\ ~IsOpened(HandlesBefore, ret.wid)) =>
                /\ ret.res = "Success"
                /\ ret.xhandle \in DOMAIN POSTGRES_OPEN_WALLETS
                /\ POSTGRES_OPEN_WALLETS[ret.xhandle].id = ret.wid
    /\ (ret.op = "fn_create" /\ ~Pre.exists) => ret.res = "Success" /\ Post.exists
    /\ (ret.op = "fn_close" /\ ret.xhandle \in DOMAIN HandlesBefore) =>
          ret.res = "Success" /\ ret.xhandle \notin DOMAIN POSTGRES_OPEN_WALLETS
    /\ ret.op = "fn_delete" =>
          /\ ret.res = "Success"
          /\ ~IsOpened(POSTGRES_OPEN_WALLETS, ret.wid) => ~Post.exists

\* C18 witness: postgreswallet_fn_open returns WalletNotFoundError for an id
\* that was created, opened, closed and deleted
C18_Witness ==
    /\ ret.op = "fn_open" /\ ret.res = "WalletNotFoundError" /\ ret.wid = "walle1"
    /\ sequence = 1
    /\ DOMAIN POSTGRES_OPEN_WALLETS = {}

\* C19: the table of open wallets never holds two handles for one wallet
\* id, and the threads between the lock and the return of
\* postgreswallet_fn_open or postgreswallet_fn_close are the one that holds
\* the mutex; an open of an id that
\* is in the table returns WalletAlreadyOpenedError and leaves the table as
\* it was; an open of an id that is not in the table (never opened, or
\* closed since) and has a database returns Success with a handle that was
\* never given out before.
C19_OneHandlePerWallet ==
    /\ \A x, y \in DOMAIN POSTGRES_OPEN_WALLETS :
          POSTGRES_OPEN_WALLETS[x].id = POSTGRES_OPEN_WALLETS[y].id => x = y
    /\ \A t \in Threads : pc[t].at \in {"open_locked", "open_checked", "close_locked"}
                             => mutex = t
    /\ ret.op = "fn_open" =>
          /\ IsOpened(HandlesBefore, ret.wid) =>
                ret.res = "WalletAlreadyOpenedError" /\ POSTGRES_OPEN_WALLETS = HandlesBefore
          /\ ret.res = "Success" =>
                /\ ~IsOpened(HandlesBefore, ret.wid)
                /\ ret.xhandle = sequence
                /\ \A x \in DOMAIN HandlesBefore : x < ret.xhandle
                /\ DOMAIN POSTGRES_OPEN_WALLETS = DOMAIN HandlesBefore \cup {ret.xhandle}
          /\ (~IsOpened(HandlesBefore, ret.wid) /\ Pre.exists) => ret.res = "Success"

\* C19 witness: a wallet that was opened and closed is opened again by one
\* thread while the other thread is in postgreswallet_fn_open for the same
\* id, waiting for the mutex
C19_Witness ==
    /\ ret.op = "fn_open" /\ ret.res = "Success" /\ ret.xhandle = 2
    /\ DOMAIN HandlesBefore = {}
    /\ \E t \in Threads : t # ret.t /\ pc[t].at = "open" /\ pc[t].id = ret.wid

\* C20: postgreswallet_fn_close of a handle that was closed before returns
\* Success again and changes neither the table nor any wallet, and no close
\* changes the records of a wallet.
C20_CloseIdempotent ==
    /\ (ret.op = "fn_close" /\ ret.xhandle \in 1..sequence
            /\ ret.xhandle \notin DOMAIN HandlesBefore) =>
          /\ ret.res = "Success"
          /\ POSTGRES_OPEN_WALLETS = HandlesBefore
    /\ ret.op = "fn_close" => databases = before

(***************************************************************************)
(* The key-value wallets: RemoteWallet (remote.rs), which keeps its items  *)
(* on a REST server, and VirtualWallet (virtualid.rs), which keeps them in *)
(* an SQLite file. Both hold the items of a root wallet and of the virtual *)
(* wallets named in the credentials.                                       *)
(***************************************************************************)
\* the ticks in a second: the clock is finer than the seconds num_seconds counts
TicksPerSecond == 2

\* the virtual_wallet of the credentials
VirtualNames == {"some1", "some2"}
\* keys as the list of the parts "::" separates: "typeA::k1" is <<"typeA", "k1">>.
\* Types and ids are non-empty and free of characters a URL treats specially.
KvKeys == {<<"typeA", "k1">>, <<"typeA", "k2">>, <<"typeB", "k1">>}
\* keys with no delimiter and with two
BadKeys == {<<"typeA">>, <<"typeA", "k1", "x">>}
KvValues == {"v1", "v2"}
\* "typeA::", "typeB::" and "typeA"
KeyPrefixes == {<<"typeA", "">>, <<"typeB", "">>, <<"typeA">>}
FreshnessTimes == {-1, 0, 1}
\* the default freshness_time of both runtime configs
DefaultFreshness == 1000

\* the wallets open returns: RemoteWallet and VirtualWallet have the same fields
KvWallet(name, virtual_wallet, freshness_time) ==
    [wallet_name |-> name, virtual_wallet |-> virtual_wallet, freshness_time |-> freshness_time]
KvWallets ==
    {KvWallet(n, v, DefaultFreshness) :
        n \in RootNames, v \in {None} \cup {Some(x) : x \in VirtualNames}}

root_wallet_name(wallet_name) == wallet_name

virtual_wallet_name(wallet_name, virtual_wallet) ==
    IF virtual_wallet # None THEN virtual_wallet[1] ELSE wallet_name

in_virtual_wallet(root, virtual) == root # virtual

\* key_to_item_type_id: panics unless split("::") gives two parts
key_to_item_type_id(key) ==
    IF Len(key) = 2 THEN [ok |-> TRUE, item_type |-> key[1], item_id |-> key[2]]
    ELSE [ok |-> FALSE, item_type |-> "", item_id |-> ""]

item_type_id_to_key(item_type, item_id) == <<item_type, item_id>>

key_prefix_to_type(key_prefix) == key_prefix[1]

\* The REST server. GET {endpoint}/{wallet}/{type}/{id}/ and
\* GET {endpoint}/{wallet}/{type}/ answer with the items that match,
\* POST {endpoint}/ stores a new item under a new row id, PUT {endpoint}/{id}/
\* replaces the fields of the item with that row id.
ServerGetItem(srv, wallet_name, item_type, item_id) ==
    {r \in srv.items : r.wallet_name = wallet_name /\ r.item_type = item_type
                          /\ r.item_id = item_id}

ServerGetList(srv, wallet_name, item_type) ==
    {r \in srv.items : r.wallet_name = wallet_name /\ r.item_type = item_type}

ServerPost(srv, map, now) ==
    [items |-> srv.items \cup
                  {[id |-> srv.seq + 1, wallet_name |-> map.wallet_name,
                    item_type |-> map.item_type, item_id |-> map.item_id,
                    item_value |-> map.item_value, created |-> now]},
     seq |-> srv.seq + 1]

ServerPut(srv, id, map) ==
    [srv EXCEPT !.items =
        {IF r.id = id
         THEN [r EXCEPT !.wallet_name = map.wallet_name, !.item_type = map.item_type,
                        !.item_id = map.item_id, !.item_value = map.item_value]
         ELSE r : r \in @}]

\* What becomes of one request: "answered" is a success status with a JSON body,
\* "failed" a transport error or an error status, "malformed" a success status
\* with a body that is no JSON object or array.
Responses == {"answered", "failed", "malformed"}
\* the responses to the requests of a call, in their order, when all are answered
Answered == <<"answered", "answered">>
Nets == {<<a, b>> : a \in Responses, b \in Responses}

\* a request as the handlers send it and what the handler made of its response
Request(method, wallet_name, res) ==
    [method |-> method, wallet_name |-> wallet_name, res |-> res]

\* call_get_internal of remote.rs; 0 stands for no row id
remote_call_get_internal(srv, wallet_name, key, resp) ==
    LET k == key_to_item_type_id(key)
        v == ServerGetItem(srv, wallet_name, k.item_type, k.item_id)
    IN IF ~k.ok THEN [res |-> "panic", id |-> 0, value |-> ""]
       ELSE IF resp = "failed" THEN [res |-> "NotFound", id |-> 0, value |-> ""]
       ELSE IF resp = "malformed" THEN [res |-> "InvalidStructure", id |-> 0, value |-> ""]
       ELSE IF Cardinality(v) # 1 THEN [res |-> "NotFound", id |-> 0, value |-> ""]
       ELSE LET r == CHOOSE x \in v : TRUE
            IN [res |-> "Ok", id |-> r.id, value |-> r.item_value]

\* the PUT or POST of set: rest_check_result reads the status only
RemoteWrite(srv, written, resp) ==
    IF resp = "failed" THEN [res |-> "NotFound", server |-> srv]
    ELSE [res |-> "Ok", server |-> written]

\* RemoteWallet::set that looks the key up as get does, root wallet included
RemoteWallet_set_lookup_root(srv, w, key, value, now, net) ==
    LET k == key_to_item_type_id(key)
        current == virtual_wallet_name(w.wallet_name, w.virtual_wallet)
        here == remote_call_get_internal(srv, current, key, net[1])
        found == IF here.res = "Ok" THEN here
                 ELSE remote_call_get_internal(srv, root_wallet_name(w.wallet_name), key,
                                               net[1])
        map == [wallet_name |-> current, item_type |-> k.item_type, item_id |-> k.item_id,
                item_value |-> value]
        wr == RemoteWrite(srv, IF found.res = "Ok" THEN ServerPut(srv, found.id, map)
                               ELSE ServerPost(srv, map, now), net[2])
    IN IF ~k.ok THEN [res |-> "panic", server |-> srv, requests |-> <<>>]
       ELSE [res |-> wr.res, server |-> wr.server,
             requests |-> <<Request("GET", current, here.res),
                            Request(IF found.res = "Ok" THEN "PUT" ELSE "POST", current,
                                    wr.res)>>]

\* RemoteWallet::set that always creates
RemoteWallet_set_post(srv, w, key, value, now, net) ==
    LET k == key_to_item_type_id(key)
        current == virtual_wallet_name(w.wallet_name, w.virtual_wallet)
        found == remote_call_get_internal(srv, current, key, net[1])
        map == [wallet_name |-> current,
                item_type |-> k.item_type, item_id |-> k.item_id, item_value |-> value]
        wr == RemoteWrite(srv, ServerPost(srv, map, now), net[2])
    IN IF ~k.ok THEN [res |-> "panic", server |-> srv, requests |-> <<>>]
       ELSE [res |-> wr.res, server |-> wr.server,
             requests |-> <<Request("GET", current, found.res),
                            Request("POST", current, wr.res)>>]

\* RemoteWallet::set
RemoteWallet_set(srv, w, key, value, now, net) ==
    LET k == key_to_item_type_id(key)
        current == virtual_wallet_name(w.wallet_name, w.virtual_wallet)
        found == remote_call_get_internal(srv, current, key, net[1])
        tmp_id == IF found.res = "Ok" THEN found.id ELSE 0
        map == [wallet_name |-> current,
                item_type |-> k.item_type, item_id |-> k.item_id, item_value |-> value]
        wr == RemoteWrite(srv, IF tmp_id # 0 THEN ServerPut(srv, tmp_id, map)
                               ELSE ServerPost(srv, map, now), net[2])
    IN IF ~k.ok THEN [res |-> "panic", server |-> srv, requests |-> <<>>]
       ELSE [res |-> wr.res, server |-> wr.server,
             requests |-> <<Request("GET", current, found.res),
                            Request(IF tmp_id # 0 THEN "PUT" ELSE "POST", current,
                                    wr.res)>>]

\* RemoteWallet::get without the second lookup
RemoteWallet_get_current_only(srv, w, key, net) ==
    LET current == virtual_wallet_name(w.wallet_name, w.virtual_wallet)
        r == remote_call_get_internal(srv, current, key, net[1])
    IN IF r.res = "panic" THEN [res |-> "panic", value |-> "", requests |-> <<>>]
       ELSE [res |-> IF r.res = "Ok" THEN "Ok" ELSE "NotFound", value |-> r.value,
             requests |-> <<Request("GET", current, r.res)>>]

\* RemoteWallet::get that asks the root wallet whenever the first lookup failed
RemoteWallet_get_root_always(srv, w, key, net) ==
    LET root == root_wallet_name(w.wallet_name)
        current == virtual_wallet_name(w.wallet_name, w.virtual_wallet)
        result == remote_call_get_internal(srv, current, key, net[1])
        result2 == remote_call_get_internal(srv, root, key, net[2])
    IN IF result.res = "panic" THEN [res |-> "panic", value |-> "", requests |-> <<>>]
       ELSE IF result.res = "Ok"
       THEN [res |-> "Ok", value |-> result.value,
             requests |-> <<Request("GET", current, result.res)>>]
       ELSE [res |-> IF result2.res = "Ok" THEN "Ok" ELSE "NotFound",
             value |-> result2.value,
             requests |-> <<Request("GET", current, result.res),
                            Request("GET", root, result2.res)>>]

\* RemoteWallet::get
RemoteWallet_get(srv, w, key, net) ==
    LET root == root_wallet_name(w.wallet_name)
        current == virtual_wallet_name(w.wallet_name, w.virtual_wallet)
        result == remote_call_get_internal(srv, current, key, net[1])
        result2 == remote_call_get_internal(srv, root, key, net[2])
    IN IF result.res = "panic" THEN [res |-> "panic", value |-> "", requests |-> <<>>]
       ELSE IF result.res = "Ok"
       THEN [res |-> "Ok", value |-> result.value,
             requests |-> <<Request("GET", current, result.res)>>]
       ELSE IF in_virtual_wallet(root, current)
       THEN [res |-> IF result2.res = "Ok" THEN "Ok" ELSE "NotFound",
             value |-> result2.value,
             requests |-> <<Request("GET", current, result.res),
                            Request("GET", root, result2.res)>>]
       ELSE [res |-> "NotFound", value |-> "",
             requests |-> <<Request("GET", current, result.res)>>]

\* RemoteWallet::list that asks for the items of every wallet
RemoteWallet_list_all_wallets(srv, w, key_prefix, net) ==
    LET item_type == key_prefix_to_type(key_prefix)
        current == virtual_wallet_name(w.wallet_name, w.virtual_wallet)
        v == {r \in srv.items : r.item_type = item_type}
        res == IF net[1] = "failed" THEN "NotFound"
               ELSE IF net[1] = "malformed" THEN "InvalidStructure" ELSE "Ok"
    IN [res |-> res,
        list |-> IF res # "Ok" THEN {}
                 ELSE {<<item_type_id_to_key(r.item_type, r.item_id), r.item_value>> :
                          r \in v},
        requests |-> <<Request("GET", current, res)>>]

\* RemoteWallet::list: the pairs returned, which the action puts in the order
\* the server gives
RemoteWallet_list(srv, w, key_prefix, net) ==
    LET item_type == key_prefix_to_type(key_prefix)
        current == virtual_wallet_name(w.wallet_name, w.virtual_wallet)
        v == ServerGetList(srv, current, item_type)
        res == IF net[1] = "failed" THEN "NotFound"
               ELSE IF net[1] = "malformed" THEN "InvalidStructure" ELSE "Ok"
    IN [res |-> res,
        list |-> IF res # "Ok" THEN {}
                 ELSE {<<item_type_id_to_key(r.item_type, r.item_id), r.item_value>> :
                          r \in v},
        requests |-> <<Request("GET", current, res)>>]

\* time::strptime(created, "%Y-%m-%dT%H:%M:%S"): the seconds, without their fraction
strptime(created) == created \div TicksPerSecond

\* Duration::num_seconds of a number of ticks
num_seconds(ticks) ==
    IF ticks >= 0 THEN ticks \div TicksPerSecond ELSE -((-ticks) \div TicksPerSecond)

\* RemoteWallet::get_not_expired
RemoteWallet_get_not_expired(srv, w, key, now, net) ==
    LET k == key_to_item_type_id(key)
        current == virtual_wallet_name(w.wallet_name, w.virtual_wallet)
        v == ServerGetItem(srv, current, k.item_type, k.item_id)
        r == CHOOSE x \in v : TRUE
        time_created == strptime(r.created) * TicksPerSecond
        res == IF net[1] = "failed" THEN "NotFound"
               ELSE IF net[1] = "malformed" THEN "InvalidStructure"
               ELSE IF Cardinality(v) # 1 THEN "NotFound"
               ELSE IF w.freshness_time # 0
                          /\ num_seconds(now - time_created) > w.freshness_time
               THEN "NotFound"
               ELSE "Ok"
    IN IF ~k.ok THEN [res |-> "panic", value |-> "", requests |-> <<>>]
       ELSE [res |-> res, value |-> IF res = "Ok" THEN r.item_value ELSE "",
             requests |-> <<Request("GET", current, res)>>]

\* RemoteWalletType::create. `health` is whether GET {base}/schema/ succeeds.
RemoteWalletType_create(fs, name, health) ==
    IF fs[root_wallet_name(name)].exists THEN "AlreadyExists"
    ELSE IF health THEN "Ok" ELSE "AccessFailed"

RemoteWalletType_delete(name) == "Ok"

RemoteWalletType_open(name, virtual_wallet, freshness_time, health) ==
    IF health THEN [res |-> "Ok", wallet |-> KvWallet(name, virtual_wallet, freshness_time)]
    ELSE [res |-> "AccessFailed", wallet |-> <<>>]

\* _open_connection of virtualid.rs: Connection::open creates the file
_open_connection(fs, name) ==
    IF fs[name].exists THEN fs ELSE [fs EXCEPT ![name] = [NoFile EXCEPT !.exists = TRUE]]

\* "SELECT key, value, time_created FROM wallet WHERE virtual_wallet = ?1 AND key = ?2 LIMIT 1"
SelectWallet(file, wallet_name, key) ==
    {r \in file.rows : r.virtual_wallet = wallet_name /\ r.key = key}

\* call_get_internal of virtualid.rs
virtual_call_get_internal(fs, root, wallet_name, key) ==
    LET found == SelectWallet(fs[root], wallet_name, key)
    IN IF found = {} THEN [res |-> "NotFound", value |-> ""]
       ELSE [res |-> "Ok", value |-> (CHOOSE r \in found : TRUE).value]

\* VirtualWallet::set: "INSERT OR REPLACE INTO wallet ..." under
\* PRIMARY KEY (virtual_wallet, key)
VirtualWallet_set(fs, w, key, value, now) ==
    LET root == root_wallet_name(w.wallet_name)
        opened == _open_connection(fs, root)
        current == virtual_wallet_name(w.wallet_name, w.virtual_wallet)
        row == [virtual_wallet |-> current, key |-> key, value |-> value,
                time_created |-> now]
    IN IF ~opened[root].table THEN [res |-> "InvalidState", files |-> opened]
       ELSE [res |-> "Ok",
             files |-> [opened EXCEPT ![root].rows =
                           (@ \ SelectWallet(opened[root], current, key)) \cup {row}]]

\* VirtualWallet::get
VirtualWallet_get(fs, w, key) ==
    LET root == root_wallet_name(w.wallet_name)
        opened == _open_connection(fs, root)
        result == virtual_call_get_internal(opened, root,
                      virtual_wallet_name(w.wallet_name, w.virtual_wallet), key)
        result2 == virtual_call_get_internal(opened, root, root, key)
    IN [res |-> IF result.res = "Ok" THEN "Ok" ELSE result2.res,
        value |-> IF result.res = "Ok" THEN result.value ELSE result2.value,
        files |-> opened]

\* VirtualWallet::get_not_expired
VirtualWallet_get_not_expired(fs, w, key, now) ==
    LET root == root_wallet_name(w.wallet_name)
        opened == _open_connection(fs, root)
        found == SelectWallet(opened[root],
                     virtual_wallet_name(w.wallet_name, w.virtual_wallet), key)
    IN IF ~opened[root].table THEN [res |-> "InvalidState", value |-> "", files |-> opened]
       ELSE IF found = {} THEN [res |-> "NotFound", value |-> "", files |-> opened]
       ELSE LET record == CHOOSE r \in found : TRUE
            IN IF w.freshness_time # 0
                    /\ num_seconds(now - record.time_created) > w.freshness_time
               THEN [res |-> "NotFound", value |-> "", files |-> opened]
               ELSE [res |-> "Ok", value |-> record.value, files |-> opened]

\* VirtualWalletType::create
VirtualWalletType_create(fs, name) ==
    IF fs[name].exists THEN [res |-> "AlreadyExists", files |-> fs]
    ELSE [res |-> "Ok", files |-> [fs EXCEPT ![name] = [exists |-> TRUE, table |-> TRUE,
                                                        rows |-> {}]]]

\* VirtualWalletType::delete: fs::remove_file
VirtualWalletType_delete(fs, name) ==
    IF fs[name].exists THEN [res |-> "Ok", files |-> [fs EXCEPT ![name] = NoFile]]
    ELSE [res |-> "IOError", files |-> fs]

\* the items both stores hold
RowCount == Cardinality(server.items)
               + Cardinality(UNION {files[n].rows : n \in RootNames})

\* the call a key-value wallet has completed, as ret holds it
KvCalled(op, w, key, val, res) ==
    [Idle EXCEPT !.op = op, !.w = w, !.key = key, !.val = val, !.res = res]

KvCall ==
    /\ ret = Idle
    /\ kv_before' = [server |-> server, files |-> files]
    /\ UNCHANGED <<databases, storages, before, iter_vars, ffi_vars, rec_vars, inmem_vars, conc_vars>>

RemoteCreate(name, health) ==
    /\ KvCall
    /\ ret' = [KvCalled("remote_create", <<>>, <<>>, "", RemoteWalletType_create(files, name, health))
                 EXCEPT !.wid = name, !.health = health]
    /\ UNCHANGED <<server, files, clock>>

RemoteDelete(name) ==
    /\ KvCall
    /\ ret' = [KvCalled("remote_delete", <<>>, <<>>, "", RemoteWalletType_delete(name))
                 EXCEPT !.wid = name]
    /\ UNCHANGED <<server, files, clock>>

RemoteOpen(name, virtual_wallet, health) ==
    /\ KvCall
    /\ LET r == RemoteWalletType_open(name, virtual_wallet, DefaultFreshness, health)
       IN ret' = [KvCalled("remote_open", r.wallet, <<>>, "", r.res) EXCEPT !.wid = name]
    /\ UNCHANGED <<server, files, clock>>

RemoteSet(w, key, value, net) ==
    /\ KvCall
    /\ LET r == RemoteWallet_set(server, w, key, value, clock, net)
       IN /\ server' = r.server
          /\ r.server.items # server.items => RowCount < MaxRows \/ r.server.seq = server.seq
          /\ ret' = [KvCalled("remote_set", w, key, value, r.res)
                       EXCEPT !.requests = r.requests]
    /\ UNCHANGED <<files, clock>>

RemoteGet(w, key, net) ==
    /\ KvCall
    /\ LET r == RemoteWallet_get(server, w, key, net)
       IN ret' = [KvCalled("remote_get", w, key, r.value, r.res)
                    EXCEPT !.requests = r.requests]
    /\ UNCHANGED <<server, files, clock>>

RemoteList(w, key_prefix, net) ==
    /\ KvCall
    /\ LET r == RemoteWallet_list(server, w, key_prefix, net)
       IN \E list \in Orderings(r.list) :
             ret' = [KvCalled("remote_list", w, key_prefix, "", r.res)
                       EXCEPT !.list = list, !.requests = r.requests]
    /\ UNCHANGED <<server, files, clock>>

RemoteGetNotExpired(w, key, net) ==
    /\ KvCall
    /\ LET r == RemoteWallet_get_not_expired(server, w, key, clock, net)
       IN ret' = [KvCalled("remote_get_not_expired", w, key, r.value, r.res)
                    EXCEPT !.requests = r.requests]
    /\ UNCHANGED <<server, files, clock>>

VirtualCreate(name) ==
    /\ KvCall
    /\ LET r == VirtualWalletType_create(files, name)
       IN /\ files' = r.files
          /\ ret' = [KvCalled("virtual_create", <<>>, <<>>, "", r.res) EXCEPT !.wid = name]
    /\ UNCHANGED <<server, clock>>

VirtualDelete(name) ==
    /\ KvCall
    /\ LET r == VirtualWalletType_delete(files, name)
       IN /\ files' = r.files
          /\ ret' = [KvCalled("virtual_delete", <<>>, <<>>, "", r.res) EXCEPT !.wid = name]
    /\ UNCHANGED <<server, clock>>

VirtualSet(w, key, value) ==
    /\ KvCall
    /\ LET r == VirtualWallet_set(files, w, key, value, clock)
       IN /\ files' = r.files
          /\ Cardinality(r.files[w.wallet_name].rows) > Cardinality(files[w.wallet_name].rows)
                => RowCount < MaxRows
          /\ ret' = KvCalled("virtual_set", w, key, value, r.res)
    /\ UNCHANGED <<server, clock>>

VirtualGet(w, key) ==
    /\ KvCall
    /\ LET r == VirtualWallet_get(files, w, key)
       IN /\ files' = r.files
          /\ ret' = KvCalled("virtual_get", w, key, r.value, r.res)
    /\ UNCHANGED <<server, clock>>

VirtualGetNotExpired(w, key) ==
    /\ KvCall
    /\ LET r == VirtualWallet_get_not_expired(files, w, key, clock)
       IN /\ files' = r.files
          /\ ret' = KvCalled("virtual_get_not_expired", w, key, r.value, r.res)
    /\ UNCHANGED <<server, clock>>

\* time passes
Tick ==
    /\ ret = Idle
    /\ clock < MaxClock
    /\ clock' = clock + 1
    /\ UNCHANGED <<databases, storages, ret, before, iter_vars, ffi_vars, server, files,
                   kv_before, rec_vars, inmem_vars, conc_vars>>

KvNext ==
    \/ \E n \in RootNames, health \in BOOLEAN : RemoteCreate(n, health)
    \/ \E n \in RootNames : RemoteDelete(n)
    \/ \E w \in KvWallets, health \in BOOLEAN :
          RemoteOpen(w.wallet_name, w.virtual_wallet, health)
    \/ \E w \in KvWallets, k \in KvKeys \cup BadKeys, v \in KvValues :
          RemoteSet(w, k, v, Answered)
    \/ \E w \in KvWallets, k \in KvKeys \cup BadKeys : RemoteGet(w, k, Answered)
    \/ \E w \in KvWallets, p \in KeyPrefixes : RemoteList(w, p, Answered)
    \/ \E w \in KvWallets, k \in KvKeys \cup BadKeys : RemoteGetNotExpired(w, k, Answered)
    \/ \E n \in RootNames : VirtualCreate(n)
    \/ \E n \in RootNames : VirtualDelete(n)
    \/ \E w \in KvWallets, v \in KvValues : VirtualSet(w, <<"typeA", "k1">>, v)
    \/ \E w \in KvWallets : VirtualGet(w, <<"typeA", "k1">>)
    \/ \E w \in KvWallets : VirtualGetNotExpired(w, <<"typeA", "k1">>)
    \/ Return

KvSpec == Init /\ [][KvNext]_vars

\* the values wallet `name` held for `key` when the call was made
RemoteHeld(name, key) ==
    {r.item_value : r \in {x \in kv_before.server.items :
        x.wallet_name = name /\ <<x.item_type, x.item_id>> = key}}

VirtualHeld(root, name, key) ==
    {r.value : r \in {x \in kv_before.files[root].rows :
        x.virtual_wallet = name /\ x.key = key}}

\* what get is to answer, given the values the current and the root wallet hold
LayeredAnswer(current, root) ==
    IF current # {} THEN /\ ret.res = "Ok"
                         /\ current = {ret.val}
    ELSE IF root # {} THEN /\ ret.res = "Ok"
                           /\ root = {ret.val}
    ELSE ret.res = "NotFound"

\* C21: get(K) of the remote and of the virtual wallet answers with the value
\* the current virtual wallet holds for K when it holds one, even if the root
\* wallet holds K too; otherwise with the value the root wallet holds; and with
\* NotFound only when neither holds K. Without virtual_wallet in the
\* credentials the root wallet is the current one.
C21_LayeredGet ==
    /\ ret.op = "remote_get" /\ ret.key \in KvKeys
          => LayeredAnswer(RemoteHeld(virtual_wallet_name(ret.w.wallet_name,
                                                          ret.w.virtual_wallet), ret.key),
                           RemoteHeld(ret.w.wallet_name, ret.key))
    /\ ret.op = "virtual_get"
          => LayeredAnswer(VirtualHeld(ret.w.wallet_name,
                               virtual_wallet_name(ret.w.wallet_name, ret.w.virtual_wallet),
                               ret.key),
                           VirtualHeld(ret.w.wallet_name, ret.w.wallet_name, ret.key))

\* a get through a virtual wallet that holds K, while the root wallet holds
\* another value for K
C21_Witness ==
    /\ ret.op = "remote_get" /\ ret.key \in KvKeys
    /\ ret.w.virtual_wallet # None
    /\ RemoteHeld(ret.w.virtual_wallet[1], ret.key) = {"v2"}
    /\ RemoteHeld(ret.w.wallet_name, ret.key) = {"v1"}
    /\ ret.val = "v2"

\* the items of `item_type` wallet `name` held on the server when the call was made
RemoteItems(name, item_type) ==
    {r \in kv_before.server.items : r.wallet_name = name /\ r.item_type = item_type}

\* C22: list(prefix) of the remote wallet returns exactly the items of the
\* requested type that the current virtual wallet holds, each once, as
\* ("type::id", value); an item only the root wallet or another virtual wallet
\* holds is not returned.
C22_ListCurrentOnly ==
    ret.op = "remote_list" =>
        LET held == RemoteItems(virtual_wallet_name(ret.w.wallet_name, ret.w.virtual_wallet),
                                ret.key[1])
        IN /\ ret.res = "Ok"
           /\ Len(ret.list) = Cardinality(held)
           /\ {ret.list[i] : i \in 1..Len(ret.list)}
                 = {<<<<r.item_type, r.item_id>>, r.item_value>> : r \in held}

\* a list through a virtual wallet that returns its item of the type while the
\* root wallet holds another item of the type
C22_Witness ==
    /\ ret.op = "remote_list"
    /\ ret.w.virtual_wallet = Some("some1")
    /\ ret.list = << <<(<<"typeA", "k1">>), "v1">> >>
    /\ \E r \in RemoteItems(ret.w.wallet_name, "typeA") : r.item_id = "k2"

\* the server's items other than those of wallet `name` for `key`, without
\* the row ids
RemoteOthers(items, name, key) ==
    {[wallet_name |-> r.wallet_name, item_type |-> r.item_type, item_id |-> r.item_id,
      item_value |-> r.item_value, created |-> r.created] :
        r \in {x \in items : ~(x.wallet_name = name /\ <<x.item_type, x.item_id>> = key)}}

VirtualOthers(rows, name, key) ==
    {r \in rows : ~(r.virtual_wallet = name /\ r.key = key)}

\* C23: set(K, v) through a wallet changes the item that wallet holds for K
\* and nothing else: the items of the root wallet and of every other virtual
\* wallet, and the wallet's items for other keys, are what they were.
C23_SetFrame ==
    /\ ret.op = "remote_set" =>
          LET current == virtual_wallet_name(ret.w.wallet_name, ret.w.virtual_wallet)
          IN /\ RemoteOthers(server.items, current, ret.key)
                   = RemoteOthers(kv_before.server.items, current, ret.key)
             /\ files = kv_before.files
    /\ ret.op = "virtual_set" =>
          LET current == virtual_wallet_name(ret.w.wallet_name, ret.w.virtual_wallet)
          IN /\ \A n \in RootNames :
                   VirtualOthers(files[n].rows, IF n = ret.w.wallet_name THEN current ELSE "",
                                 ret.key)
                      = VirtualOthers(kv_before.files[n].rows,
                                      IF n = ret.w.wallet_name THEN current ELSE "", ret.key)
             /\ server = kv_before.server

\* a set through a virtual wallet of a key the root wallet holds with another
\* value
C23_Witness ==
    /\ ret.op = "virtual_set" /\ ret.res = "Ok"
    /\ ret.w.virtual_wallet = Some("some1")
    /\ ret.val = "v2"
    /\ VirtualHeld(ret.w.wallet_name, ret.w.wallet_name, ret.key) = {"v1"}
    /\ \E r \in files[ret.w.wallet_name].rows :
          r.virtual_wallet = "some1" /\ r.key = ret.key /\ r.value = "v2"

\* the rows of `items` that wallet `name` holds for `key`
RemoteRows(items, name, key) ==
    {r \in items : r.wallet_name = name /\ <<r.item_type, r.item_id>> = key}

\* C24: set of the remote wallet replaces (PUT) the item whose row id the
\* lookup found and creates (POST) an item when the lookup found none; after
\* any sequence of sets the wallet holds exactly one item for the key, and get
\* answers with the value set last.
C24_SetUpsert ==
    ret.op = "remote_set" /\ ret.key \in KvKeys =>
        LET current == virtual_wallet_name(ret.w.wallet_name, ret.w.virtual_wallet)
            old == RemoteRows(kv_before.server.items, current, ret.key)
            new == RemoteRows(server.items, current, ret.key)
        IN /\ ret.res = "Ok"
           /\ old # {} => /\ server.seq = kv_before.server.seq
                          /\ {r.id : r \in new} = {r.id : r \in old}
           /\ old = {} => /\ server.seq = kv_before.server.seq + 1
                          /\ {r.id : r \in new} = {server.seq}
           /\ Cardinality(new) = 1
           /\ \A r \in new : r.item_value = ret.val
           /\ LET g == RemoteWallet_get(server, ret.w, ret.key, Answered)
              IN g.res = "Ok" /\ g.value = ret.val

\* a set that replaces the value an earlier set stored
C24_Witness ==
    /\ ret.op = "remote_set" /\ ret.key \in KvKeys
    /\ ret.val = "v2"
    /\ RemoteHeld(virtual_wallet_name(ret.w.wallet_name, ret.w.virtual_wallet), ret.key)
          = {"v1"}
    /\ server.seq = kv_before.server.seq

\* C25: a key that does not hold exactly one "::", given to set, get or
\* get_not_expired of the remote wallet, is rejected with InvalidStructure,
\* and no item is created or changed.
C25_BadKeyInvalidStructure ==
    ret.op \in {"remote_set", "remote_get", "remote_get_not_expired"} /\ ret.key \in BadKeys
        => /\ ret.res = "InvalidStructure"
           /\ server = kv_before.server

\* the wallets open returns for a runtime config that gives freshness_time
FreshWallets ==
    {KvWallet(n, v, f) : n \in RootNames, v \in {None, Some("some1")}, f \in FreshnessTimes}

\* set and get_not_expired of both wallets while time passes
FreshNext ==
    \/ Tick
    \/ \E n \in RootNames : VirtualCreate(n)
    \/ \E w \in FreshWallets, v \in KvValues : RemoteSet(w, <<"typeA", "k1">>, v, Answered)
    \/ \E w \in FreshWallets : RemoteGetNotExpired(w, <<"typeA", "k1">>, Answered)
    \/ \E w \in FreshWallets, v \in KvValues : VirtualSet(w, <<"typeA", "k1">>, v)
    \/ \E w \in FreshWallets : VirtualGetNotExpired(w, <<"typeA", "k1">>)
    \/ Return

FreshSpec == Init /\ [][FreshNext]_vars

\* what get_not_expired is to answer for an item of `value` created at `created`
FreshAnswer(created, value) ==
    IF ret.w.freshness_time > 0
          /\ (clock - created) \div TicksPerSecond > ret.w.freshness_time
    THEN ret.res = "NotFound"
    ELSE ret.res = "Ok" /\ ret.val = value

\* C26: for an item the current virtual wallet holds, get_not_expired answers
\* NotFound exactly when freshness_time > 0 and the whole seconds since the
\* item was created exceed freshness_time; in every other case it answers with
\* the item's value.
C26_Freshness ==
    LET current == virtual_wallet_name(ret.w.wallet_name, ret.w.virtual_wallet)
    IN /\ ret.op = "remote_get_not_expired" =>
             \A r \in RemoteRows(kv_before.server.items, current, ret.key) :
                FreshAnswer(r.created, r.item_value)
       /\ ret.op = "virtual_get_not_expired" =>
             \A r \in {x \in kv_before.files[ret.w.wallet_name].rows :
                          x.virtual_wallet = current /\ x.key = ret.key} :
                FreshAnswer(r.time_created, r.value)

\* C27: the wallets of the remote backend are virtual: delete returns success
\* and leaves every stored item as it was, and create for a name succeeds
\* whenever the server's health check succeeds, a second time and after a
\* delete included; it never reports AlreadyExists.
C27_RemoteCreateDelete ==
    /\ ret.op = "remote_delete" => /\ ret.res = "Ok"
                                   /\ server = kv_before.server
                                   /\ files = kv_before.files
    /\ ret.op = "remote_create" => /\ ret.res # "AlreadyExists"
                                   /\ ret.health => ret.res = "Ok"

(***************************************************************************)
(* The values of records through the wrapper: add_record takes the bytes   *)
(* of an EncryptedValue, get_record keeps the fetched record in            *)
(* POSTGRES_ACTIVE_RECORDS, get_record_value hands out its bytes.          *)
(***************************************************************************)
ByteValues == {1, 2}

\* EncryptedValue { data, key } with a key of ENCRYPTED_KEY_LEN bytes
EncryptedValueSet ==
    [data : UNION {[1..n -> ByteValues] : n \in 0..MaxData},
     key : [1..ENCRYPTED_KEY_LEN -> ByteValues]]

\* the byte arrays add_record is called with: the bytes of every
\* EncryptedValue, and an array shorter than a key
RecBytes == {to_bytes(v) : v \in EncryptedValueSet} \cup {<<3>>}

\* StorageRecord.rec_id, which becomes the record handle
RecordHandles == 1..MaxRecords

\* _tags_to_json: the object with a key per tag ("name", or "~name" for a
\* plaintext tag)
_tags_to_json(tags) == tags

\* _storagerecord_to_postgresrecord; the empty CString is <<>>, another is
\* <<its content>>
_storagerecord_to_postgresrecord(in_rec, rec_id) ==
    [rec_id |-> rec_id,
     id |-> in_rec.id,
     type_ |-> in_rec.type_,
     value |-> IF in_rec.value # None THEN to_bytes(in_rec.value[1]) ELSE <<>>,
     tags |-> IF in_rec.tags # None THEN Some(_tags_to_json(in_rec.tags[1])) ELSE None]

\* postgreswallet_fn_get_record; rec_id is the rec_id of the record get returns
postgreswallet_fn_get_record(handles, records, dbs, xhandle, type_, id, options, rec_id) ==
    IF xhandle \notin DOMAIN handles
    THEN [res |-> "CommonInvalidState", records |-> records, handle |-> 0]
    ELSE LET r == get(dbs[handles[xhandle].phandle], type_, id, options)
         IN IF r.res = "Ok"
            THEN [res |-> "Success",
                  records |-> Insert(records, rec_id,
                                     _storagerecord_to_postgresrecord(r.record[1], rec_id)),
                  handle |-> rec_id]
            ELSE [res |-> IF r.res = "panic" THEN "panic" ELSE "WalletStorageError",
                  records |-> records, handle |-> 0]

\* postgreswallet_fn_get_record_value
postgreswallet_fn_get_record_value(handles, records, xhandle, record_handle) ==
    IF xhandle \notin DOMAIN handles THEN [res |-> "CommonInvalidState", value |-> None]
    ELSE IF record_handle \notin DOMAIN records
    THEN [res |-> "CommonInvalidState", value |-> None]
    ELSE [res |-> "Success", value |-> Some(records[record_handle].value)]

\* postgreswallet_fn_get_record; both mutexes are held to the return
FnGetRecord(t, xhandle, type_, id, options) ==
    /\ ret = Idle
    /\ pc[t] = Outside
    /\ MutexFree(mutex)
    /\ before' = databases
    /\ \E rec_id \in RecordHandles :
          LET r == postgreswallet_fn_get_record(POSTGRES_OPEN_WALLETS, POSTGRES_ACTIVE_RECORDS,
                                                databases, xhandle, type_, id, options, rec_id)
          IN /\ POSTGRES_ACTIVE_RECORDS' = r.records
             /\ \E outcome \in IF r.res = "panic" THEN {"unwind", "abort"} ELSE {r.res} :
                   /\ ret' = [Called("fn_get_record", t,
                                     IF xhandle \in DOMAIN POSTGRES_OPEN_WALLETS
                                     THEN POSTGRES_OPEN_WALLETS[xhandle].id ELSE "", xhandle,
                                     outcome)
                                EXCEPT !.type_ = type_, !.id = id, !.options = options,
                                       !.record_handle = r.handle]
                   /\ pc' = IF outcome = "abort" THEN [u \in Threads |-> Aborted] ELSE pc
                   /\ mutex' = IF outcome = "unwind" THEN Poisoned ELSE mutex
    /\ UNCHANGED <<databases, storages, iter_vars, kv_vars, inmem_vars, conc_vars, POSTGRES_OPEN_WALLETS,
                   sequence>>

\* postgreswallet_fn_get_record_value
FnGetRecordValue(t, xhandle, record_handle) ==
    /\ ret = Idle
    /\ pc[t] = Outside
    /\ MutexFree(mutex)
    /\ before' = databases
    /\ LET r == postgreswallet_fn_get_record_value(POSTGRES_OPEN_WALLETS,
                                                   POSTGRES_ACTIVE_RECORDS, xhandle,
                                                   record_handle)
       IN ret' = [Called("fn_get_record_value", t, "", xhandle, r.res)
                    EXCEPT !.record_handle = record_handle, !.bytes = r.value]
    /\ UNCHANGED <<databases, storages, iter_vars, kv_vars, rec_vars, inmem_vars, conc_vars, ffi_vars>>

\* one wallet, its records added and fetched through the wrapper by one thread
RecNext ==
    \/ FnCreate(1, "walle1", <<>>)
    \/ FnOpen(1, "walle1")
    \/ FnOpenLock(1)
    \/ FnOpenCheck(1)
    \/ FnOpenInsert(1)
    \/ \E b \in RecBytes : FnAddRecord(1, 1, 1, 1, b, {})
    \/ FnAddRecord(1, 1, 1, 2, to_bytes(_value(2)), {})
    \/ \E id \in {1, 2}, o \in RecordOptionsSet : FnGetRecord(1, 1, 1, id, o)
    \/ \E r \in RecordHandles : FnGetRecordValue(1, 1, r)
    \/ Return

RecSpec == Init /\ [][RecNext]_vars

\* the row of items a record of wallet `w` is stored in
ItemRows(w, type_, id) == {r \in databases[w].items : r.type = type_ /\ r.name = id}

\* C28: from_bytes(to_bytes(v)) = v for every EncryptedValue v with a key of
\* ENCRYPTED_KEY_LEN bytes and data of any length, and the bytes given to
\* postgreswallet_fn_add_record come back from postgreswallet_fn_get_record_value
\* byte for byte: add_record stores them so that key followed by data are the
\* bytes given, get_record with retrieveValue keeps exactly those bytes under
\* the record handle, and get_record_value returns the bytes kept.
C28_ValueRoundTrip ==
    /\ \A v \in EncryptedValueSet : from_bytes(to_bytes(v)) = [ok |-> TRUE, value |-> v]
    /\ ret.op = "fn_add_record" /\ ret.res = "Success" =>
          \E r \in ItemRows(ret.wid, ret.type_, ret.id) : r.key \o r.value = ret.bytes[1]
    /\ ret.op = "fn_get_record" /\ ret.res = "Success" /\ ret.options.retrieve_value =>
          \E r \in ItemRows(ret.wid, ret.type_, ret.id) :
             POSTGRES_ACTIVE_RECORDS[ret.record_handle].value = r.key \o r.value
    /\ ret.op = "fn_get_record_value" /\ ret.res = "Success" =>
          ret.bytes = Some(POSTGRES_ACTIVE_RECORDS[ret.record_handle].value)

\* the bytes of a value with data, stored earlier, returned for its record
\* handle while another record is in the wallet
C28_Witness ==
    /\ ret.op = "fn_get_record_value" /\ ret.res = "Success"
    /\ ret.bytes = Some(<<1, 2, 2>>)
    /\ POSTGRES_ACTIVE_RECORDS[ret.record_handle].id = 1
    /\ \E r \in ItemRows("walle1", 1, 1) : r.key = <<1, 2>> /\ r.value = <<2>>
    /\ Cardinality(databases["walle1"].items) = 2

\* the rows of the three record tables of a database
RecordTables(db) == <<db.items, db.tags_encrypted, db.tags_plaintext>>

\* C29: a write of several statements that fails part-way has no effect: an
\* add whose tag list repeats a name within one variant returns
\* ItemAlreadyExists and leaves no record for (type, id), and an update_tags
\* whose tag list repeats a name within one variant returns an error and
\* leaves the tags the record had.
C29_FailedWriteNoEffect ==
    /\ ret.op = "add" /\ Pre.tables /\ ~DistinctNames(ret.tags) =>
          /\ ret.res = "ItemAlreadyExists"
          /\ SelectItem(Pre, ret.type_, ret.id) = {} => SelectItem(Post, ret.type_, ret.id) = {}
          /\ RecordTables(Post) = RecordTables(Pre)
    /\ ret.op = "update_tags" /\ Pre.tables /\ SelectItem(Pre, ret.type_, ret.id) # {}
          /\ ~DistinctNames(ret.tags) =>
             /\ ret.res \notin {"Ok", "ItemNotFound"}
             /\ Fetch(Post, RetKey) = Fetch(Pre, RetKey)
             /\ RecordTables(Post) = RecordTables(Pre)

\* an update_tags with a repeated name on a record that has a tag the list
\* does not hold
C29_Witness ==
    /\ ret.op = "update_tags" /\ Pre.tables /\ ~DistinctNames(ret.tags)
    /\ Fetch(Pre, RetKey).res = "Ok"
    /\ \E t \in Fetch(Post, RetKey).record[1].tags[1] : t \notin TagSet(ret.tags)

(***************************************************************************)
(* The options of get and of search: what a returned record carries.       *)
(***************************************************************************)
\* every RecordOptions
AllRecordOptions ==
    [retrieve_type : BOOLEAN, retrieve_value : BOOLEAN, retrieve_tags : BOOLEAN]

\* every SearchOptions that asks for records
AllSearchOptions ==
    [retrieve_records : {TRUE}, retrieve_total_count : {FALSE}, retrieve_type : BOOLEAN,
     retrieve_value : BOOLEAN, retrieve_tags : BOOLEAN]

\* one wallet whose records, with tags and without, are read by get and by
\* the iterator of search under every combination of options
OptNext ==
    \/ CreateStorage("walle1", <<1, 2>>)
    \/ \E h \in Handles : OpenStorage(h, "walle1")
    \/ \E h \in Handles, k \in AddKeys, tags \in SeqsUpTo(Tags, 1) :
          Add(h, k[1], k[2], [data |-> 7, key |-> 10], tags)
    \/ \E h \in Handles, k \in Keys, o \in AllRecordOptions : Get(h, k[1], k[2], o)
    \/ \E h \in Handles, i \in IterIds, o \in AllSearchOptions,
          q \in {Eq("Encrypted", 1, 3), Not(Eq("Encrypted", 1, 3))} :
             Search(h, i, 1, q, o)
    \/ \E i \in IterIds : IteratorNext(i)
    \/ \E i \in IterIds : DropIterator(i)
    \/ Return

OptSpec == Init /\ [][OptNext]_vars

\* `record` is the record of a row of items of `db` and carries of its
\* value, type and tags what `options` asks for
Carries(record, options, db) ==
    \E r \in db.items :
       /\ record.id = r.name
       /\ record.value = IF options.retrieve_value
                         THEN Some([data |-> r.value, key |-> r.key]) ELSE None
       /\ record.type_ = IF options.retrieve_type THEN Some(r.type) ELSE None
       /\ record.tags = IF options.retrieve_tags THEN Some(TagsUnder(db, r.id)) ELSE None

\* C30: a record returned by get or yielded by the iterator of a search
\* carries a value exactly when retrieveValue was asked for, a type exactly
\* when retrieveType was, and a tag list exactly when retrieveTags was (the
\* tag list asked for of a record without tags is there and empty); its id is
\* always there.
C30_RecordCarriesRequested ==
    /\ ret.op = "get" /\ ret.res = "Ok" =>
          /\ ret.record # None
          /\ ret.record[1].id = ret.id
          /\ Carries(ret.record[1], ret.options, Pre)
    /\ ret.op = "next" /\ ret.record # None /\ iter_before[ret.it].op = "search" =>
          Carries(ret.record[1], iter_before[ret.it].search_options, Pre)

\* the iterator of a search that asked for type and tags but no value yields
\* a record without tags
C30_Witness ==
    /\ ret.op = "next" /\ ret.record # None /\ iter_before[ret.it].op = "search"
    /\ iter_before[ret.it].search_options.retrieve_tags
    /\ iter_before[ret.it].search_options.retrieve_type
    /\ ~iter_before[ret.it].search_options.retrieve_value
    /\ ret.record[1].tags = Some({})
    /\ ret.record[1].value = None
    /\ ret.record[1].type_ = Some(1)

(***************************************************************************)
(* The requests of the remote wallet when the server may fail to answer.   *)
(***************************************************************************)
NetKeys == {<<"typeA", "k1">>, <<"typeA">>}

\* the remote handlers, each request answered, failed or answered with a bad body
NetNext ==
    \/ \E w \in KvWallets, k \in NetKeys, v \in KvValues, net \in Nets :
          RemoteSet(w, k, v, net)
    \/ \E w \in KvWallets, k \in NetKeys, net \in Nets : RemoteGet(w, k, net)
    \/ \E w \in KvWallets, net \in Nets : RemoteList(w, <<"typeA", "">>, net)
    \/ \E w \in KvWallets, k \in NetKeys, net \in Nets : RemoteGetNotExpired(w, k, net)
    \/ Return

NetSpec == Init /\ [][NetNext]_vars

\* the wallet the completed call addressed, and its root
RetCurrent == virtual_wallet_name(ret.w.wallet_name, ret.w.virtual_wallet)
RetRoot == root_wallet_name(ret.w.wallet_name)

\* the requests of a completed call other than get: set looks up once and writes
\* once, list and get_not_expired ask once, all in the current wallet
SingleRequests ==
    /\ ret.op = "remote_set" /\ ret.res # "panic" =>
          /\ Len(ret.requests) = 2
          /\ ret.requests[1].method = "GET"
          /\ ret.requests[2].method \in {"PUT", "POST"}
    /\ ret.op \in {"remote_list", "remote_get_not_expired"} /\ ret.res # "panic" =>
          /\ Len(ret.requests) = 1
          /\ ret.requests[1].method = "GET"
    /\ ret.op \in {"remote_set", "remote_list", "remote_get_not_expired"} =>
          \A i \in DOMAIN ret.requests : ret.requests[i].wallet_name = RetCurrent

\* the lookups of a completed get, the second made only after a first whose
\* result is in `reported`
GetLookups(reported) ==
    ret.op = "remote_get" /\ ret.res # "panic" =>
       /\ Len(ret.requests) \in {1, 2}
       /\ \A i \in DOMAIN ret.requests : ret.requests[i].method = "GET"
       /\ ret.requests[1].wallet_name = RetCurrent
       /\ Len(ret.requests) = 2 =>
             /\ ret.requests[2].wallet_name = RetRoot
             /\ ret.requests[1].res \in reported
             /\ in_virtual_wallet(RetRoot, RetCurrent)

OnlyRootHolds(op, current, root) ==
    /\ ret.op = op
    /\ ret.key \in KvKeys
    /\ ret.w.virtual_wallet # None
    /\ current = {}
    /\ root # {}

\* C32: get_not_expired looks in the selected virtual wallet first and, when
\* the key is not there, in the root wallet: a key only the root holds is
\* answered with the root's value.
C32_GetNotExpiredChecksRoot ==
    /\ OnlyRootHolds("remote_get_not_expired", RemoteHeld(RetCurrent, ret.key),
                     RemoteHeld(RetRoot, ret.key))
          => ret.res = "Ok" /\ RemoteHeld(RetRoot, ret.key) = {ret.val}
    /\ OnlyRootHolds("virtual_get_not_expired",
                     VirtualHeld(RetRoot, RetCurrent, ret.key),
                     VirtualHeld(RetRoot, RetRoot, ret.key))
          => ret.res = "Ok" /\ VirtualHeld(RetRoot, RetRoot, ret.key) = {ret.val}

\* C33: postgreswallet_fn_create of a wallet id that has a database returns
\* to its caller with an error code other than Success, changes nothing and
\* leaves the library usable: it neither unwinds out of the function nor
\* ends the process.
C33_CreateExistingReturnsError ==
    (ret.op = "fn_create" /\ Pre.exists) =>
        /\ ret.res \notin {"Success", "unwind", "abort"}
        /\ databases = before
        /\ \A u \in Threads : pc[u] # Aborted

(***************************************************************************)
(* The handlers of the wrapper that still work on the in-memory tables     *)
(* INMEM_OPEN_WALLETS and INMEM_WALLETS, and the accessors of the records  *)
(* postgreswallet_fn_get_record has fetched.                               *)
(***************************************************************************)
\* HashMap::contains_key
contains_key(table, key) == key \in DOMAIN table

\* build_record_id: format!("{}-{}", type_, id)
build_record_id(type_, id) == <<type_, id>>

\* The text of a JSON object is Some(the object), a function from its keys to
\* their values; a text serde_json does not parse is None.
JsonTags == {Some([n \in {"a"} |-> "1"]), None}
JsonNames == {Some({"a"}), None}

\* HashMap::extend
extend(curr, new) ==
    [n \in DOMAIN curr \cup DOMAIN new |-> IF n \in DOMAIN new THEN new[n] ELSE curr[n]]

\* what a handler of the in-memory tables leaves unchanged
InmemResult(res) ==
    [res |-> res, wallets |-> INMEM_WALLETS, metadatas |-> ACTIVE_METADATAS,
     searches |-> ACTIVE_SEARCHES, seq |-> sequence]

\* the lookups each of these handlers starts with: the context of xhandle in
\* INMEM_OPEN_WALLETS, then the wallet of that context in INMEM_WALLETS
InmemWallet(xhandle) ==
    IF ~contains_key(INMEM_OPEN_WALLETS, xhandle) THEN [res |-> "CommonInvalidState", id |-> ""]
    ELSE IF ~contains_key(INMEM_WALLETS, INMEM_OPEN_WALLETS[xhandle].id)
    THEN [res |-> "CommonInvalidState", id |-> ""]
    ELSE [res |-> "Ok", id |-> INMEM_OPEN_WALLETS[xhandle].id]

\* the handler's work on the record type_-id of the wallet, once both lookups
\* have succeeded: `changed` is the record it leaves
OnInmemRecord(xhandle, type_, id, res, changed) ==
    LET c == InmemWallet(xhandle)
        key == build_record_id(type_, id)
    IN IF c.res # "Ok" THEN InmemResult(c.res)
       ELSE IF ~contains_key(INMEM_WALLETS[c.id].records, key)
       THEN InmemResult("WalletItemNotFound")
       ELSE IF res # "Success" THEN InmemResult(res)
       ELSE [InmemResult("Success")
                EXCEPT !.wallets = [INMEM_WALLETS EXCEPT ![c.id].records[key] = changed]]

InmemRecord(xhandle, type_, id) ==
    INMEM_WALLETS[InmemWallet(xhandle).id].records[build_record_id(type_, id)]

postgreswallet_fn_update_record_value(xhandle, type_, id, joined_value) ==
    OnInmemRecord(xhandle, type_, id, "Success",
                  [InmemRecord(xhandle, type_, id) EXCEPT !.value = joined_value])

postgreswallet_fn_add_record_tags(xhandle, type_, id, tags_json) ==
    LET record == InmemRecord(xhandle, type_, id)
        parsed == tags_json # None /\ record.tags # None
    IN OnInmemRecord(xhandle, type_, id,
                     IF parsed THEN "Success" ELSE "CommonInvalidStructure",
                     [record EXCEPT !.tags = Some(extend(record.tags[1], tags_json[1]))])

postgreswallet_fn_update_record_tags(xhandle, type_, id, tags_json) ==
    OnInmemRecord(xhandle, type_, id, "Success",
                  [InmemRecord(xhandle, type_, id) EXCEPT !.tags = tags_json])

postgreswallet_fn_delete_record_tags(xhandle, type_, id, tag_names) ==
    LET record == InmemRecord(xhandle, type_, id)
        parsed == tag_names # None /\ record.tags # None
    IN OnInmemRecord(xhandle, type_, id,
                     IF parsed THEN "Success" ELSE "CommonInvalidStructure",
                     [record EXCEPT !.tags =
                         Some([n \in DOMAIN record.tags[1] \ tag_names[1] |->
                                  record.tags[1][n]])])

postgreswallet_fn_delete_record(xhandle, type_, id) ==
    LET c == InmemWallet(xhandle)
        key == build_record_id(type_, id)
    IN IF c.res # "Ok" THEN InmemResult(c.res)
       ELSE IF ~contains_key(INMEM_WALLETS[c.id].records, key)
       THEN InmemResult("WalletItemNotFound")
       ELSE [InmemResult("Success")
                EXCEPT !.wallets = [INMEM_WALLETS EXCEPT ![c.id].records =
                                       Remove(@, key)]]

postgreswallet_fn_get_storage_metadata(xhandle) ==
    LET c == InmemWallet(xhandle)
        handle == get_next_id(sequence)
    IN IF c.res # "Ok" THEN InmemResult(c.res)
       ELSE [InmemResult("Success")
                EXCEPT !.seq = handle,
                       !.metadatas = Insert(ACTIVE_METADATAS, handle,
                                            INMEM_WALLETS[c.id].metadata)]

postgreswallet_fn_set_storage_metadata(xhandle, metadata) ==
    LET c == InmemWallet(xhandle)
    IN IF c.res # "Ok" THEN InmemResult(c.res)
       ELSE [InmemResult("Success")
                EXCEPT !.wallets = [INMEM_WALLETS EXCEPT ![c.id].metadata = metadata]]

\* the records a search keeps, as the set of their keys
postgreswallet_fn_search_records(xhandle, type_) ==
    LET c == InmemWallet(xhandle)
        search_handle == get_next_id(sequence)
    IN IF c.res # "Ok" THEN InmemResult(c.res)
       ELSE [InmemResult("Success")
                EXCEPT !.seq = search_handle,
                       !.searches =
                           Insert(ACTIVE_SEARCHES, search_handle,
                                  {k \in DOMAIN INMEM_WALLETS[c.id].records : k[1] = type_})]

postgreswallet_fn_search_all_records(xhandle) ==
    LET c == InmemWallet(xhandle)
        search_handle == get_next_id(sequence)
    IN IF c.res # "Ok" THEN InmemResult(c.res)
       ELSE [InmemResult("Success")
                EXCEPT !.seq = search_handle,
                       !.searches = Insert(ACTIVE_SEARCHES, search_handle,
                                           DOMAIN INMEM_WALLETS[c.id].records)]

\* a thread makes one of these calls: the locks it takes are free, and it
\* releases them when it returns
InmemCall(t, op, xhandle, r) ==
    /\ ret = Idle
    /\ pc[t] = Outside
    /\ \A m \in LockTables : locks[m] = 0
    /\ before' = databases
    /\ ret' = Called(op, t, "", xhandle, r.res)
    /\ INMEM_WALLETS' = r.wallets
    /\ ACTIVE_METADATAS' = r.metadatas
    /\ ACTIVE_SEARCHES' = r.searches
    /\ sequence' = r.seq
    /\ UNCHANGED <<databases, storages, iter_vars, kv_vars, rec_vars, POSTGRES_OPEN_WALLETS,
                   mutex, pc, INMEM_OPEN_WALLETS, locks, conc_vars>>

FnUpdateRecordValue(t, xhandle, type_, id, joined_value) ==
    InmemCall(t, "fn_update_record_value", xhandle,
              postgreswallet_fn_update_record_value(xhandle, type_, id, joined_value))

FnAddRecordTags(t, xhandle, type_, id, tags_json) ==
    InmemCall(t, "fn_add_record_tags", xhandle,
              postgreswallet_fn_add_record_tags(xhandle, type_, id, tags_json))

FnUpdateRecordTags(t, xhandle, type_, id, tags_json) ==
    InmemCall(t, "fn_update_record_tags", xhandle,
              postgreswallet_fn_update_record_tags(xhandle, type_, id, tags_json))

FnDeleteRecordTags(t, xhandle, type_, id, tag_names) ==
    InmemCall(t, "fn_delete_record_tags", xhandle,
              postgreswallet_fn_delete_record_tags(xhandle, type_, id, tag_names))

FnDeleteRecord(t, xhandle, type_, id) ==
    InmemCall(t, "fn_delete_record", xhandle,
              postgreswallet_fn_delete_record(xhandle, type_, id))

FnGetStorageMetadata(t, xhandle) ==
    InmemCall(t, "fn_get_storage_metadata", xhandle,
              postgreswallet_fn_get_storage_metadata(xhandle))

FnSetStorageMetadata(t, xhandle, metadata) ==
    InmemCall(t, "fn_set_storage_metadata", xhandle,
              postgreswallet_fn_set_storage_metadata(xhandle, metadata))

FnSearchRecords(t, xhandle, type_) ==
    InmemCall(t, "fn_search_records", xhandle,
              postgreswallet_fn_search_records(xhandle, type_))

FnSearchAllRecords(t, xhandle) ==
    InmemCall(t, "fn_search_all_records", xhandle,
              postgreswallet_fn_search_all_records(xhandle))

\* PostgresWallet::cleanup
cleanup == [wallets |-> <<>>, handles |-> <<>>]

Cleanup(t) ==
    /\ ret = Idle
    /\ pc[t] = Outside
    /\ \A m \in LockTables : locks[m] = 0
    /\ before' = databases
    /\ ret' = Called("cleanup", t, "", 0, "")
    /\ INMEM_WALLETS' = cleanup.wallets
    /\ INMEM_OPEN_WALLETS' = cleanup.handles
    /\ UNCHANGED <<databases, storages, iter_vars, kv_vars, rec_vars, ffi_vars,
                   ACTIVE_METADATAS, ACTIVE_SEARCHES, locks, conc_vars>>

\* postgreswallet_fn_get_record_id
postgreswallet_fn_get_record_id(handles, records, xhandle, record_handle) ==
    IF ~contains_key(handles, xhandle) THEN [res |-> "CommonInvalidState", id |-> None]
    ELSE IF ~contains_key(records, record_handle)
    THEN [res |-> "CommonInvalidState", id |-> None]
    ELSE [res |-> "Success", id |-> Some(records[record_handle].id)]

\* postgreswallet_fn_get_record_type
postgreswallet_fn_get_record_type(handles, records, xhandle, record_handle) ==
    IF ~contains_key(handles, xhandle) THEN [res |-> "CommonInvalidState", type_ |-> None]
    ELSE IF ~contains_key(records, record_handle)
    THEN [res |-> "CommonInvalidState", type_ |-> None]
    ELSE [res |-> "Success", type_ |-> Some(records[record_handle].type_)]

\* postgreswallet_fn_get_record_tags
postgreswallet_fn_get_record_tags(handles, records, xhandle, record_handle) ==
    IF ~contains_key(handles, xhandle) THEN [res |-> "CommonInvalidState", tags |-> None]
    ELSE IF ~contains_key(records, record_handle)
    THEN [res |-> "CommonInvalidState", tags |-> None]
    ELSE [res |-> "Success", tags |-> records[record_handle].tags]

\* postgreswallet_fn_free_record that removes nothing
postgreswallet_fn_free_record_keep(handles, records, xhandle, record_handle) ==
    IF ~contains_key(handles, xhandle) THEN [res |-> "CommonInvalidState", records |-> records]
    ELSE IF ~contains_key(records, record_handle)
    THEN [res |-> "CommonInvalidState", records |-> records]
    ELSE [res |-> "Success", records |-> records]

\* postgreswallet_fn_free_record
postgreswallet_fn_free_record(handles, records, xhandle, record_handle) ==
    IF ~contains_key(handles, xhandle) THEN [res |-> "CommonInvalidState", records |-> records]
    ELSE IF ~contains_key(records, record_handle)
    THEN [res |-> "CommonInvalidState", records |-> records]
    ELSE [res |-> "Success", records |-> Remove(records, record_handle)]

\* a thread calls an accessor of a fetched record or frees it: it holds the
\* locks of POSTGRES_OPEN_WALLETS and POSTGRES_ACTIVE_RECORDS to its return
RecordCall(t, op, xhandle, record_handle, res) ==
    /\ ret = Idle
    /\ pc[t] = Outside
    /\ MutexFree(mutex)
    /\ locks["POSTGRES_ACTIVE_RECORDS"] = 0
    /\ before' = databases
    /\ ret' = [Called(op, t, "", xhandle, res)
                 EXCEPT !.record_handle = record_handle]
    /\ UNCHANGED <<databases, storages, iter_vars, kv_vars, inmem_vars, conc_vars, ffi_vars>>

FnGetRecordId(t, xhandle, record_handle) ==
    /\ RecordCall(t, "fn_get_record_id", xhandle, record_handle,
                  postgreswallet_fn_get_record_id(POSTGRES_OPEN_WALLETS, POSTGRES_ACTIVE_RECORDS,
                                                  xhandle, record_handle).res)
    /\ UNCHANGED rec_vars

FnGetRecordType(t, xhandle, record_handle) ==
    /\ RecordCall(t, "fn_get_record_type", xhandle, record_handle,
                  postgreswallet_fn_get_record_type(POSTGRES_OPEN_WALLETS,
                                                    POSTGRES_ACTIVE_RECORDS,
                                                    xhandle, record_handle).res)
    /\ UNCHANGED rec_vars

FnGetRecordTags(t, xhandle, record_handle) ==
    /\ RecordCall(t, "fn_get_record_tags", xhandle, record_handle,
                  postgreswallet_fn_get_record_tags(POSTGRES_OPEN_WALLETS,
                                                    POSTGRES_ACTIVE_RECORDS,
                                                    xhandle, record_handle).res)
    /\ UNCHANGED rec_vars

FnFreeRecord(t, xhandle, record_handle) ==
    LET r == postgreswallet_fn_free_record(POSTGRES_OPEN_WALLETS, POSTGRES_ACTIVE_RECORDS,
                                           xhandle, record_handle)
    IN /\ RecordCall(t, "fn_free_record", xhandle, record_handle, r.res)
       /\ POSTGRES_ACTIVE_RECORDS' = r.records

\* the handles the calls are made with: those open returns, and one it never
\* returns
CallHandles == 1..2

\* one thread: a wallet created, opened and closed, records added, fetched,
\* read and freed, and every other handler called, with any handle
HandleNext ==
    \/ FnCreate(1, "walle1", <<>>)
    \/ FnOpen(1, "walle1")
    \/ FnOpenLock(1)
    \/ FnOpenCheck(1)
    \/ FnOpenInsert(1)
    \/ \E x \in CallHandles : FnClose(1, x)
    \/ FnCloseLock(1)
    \/ FnCloseBody(1)
    \/ \E x \in CallHandles, id \in {1, 2} : FnAddRecord(1, x, 1, id, to_bytes(_value(id)), {})
    \/ \E x \in CallHandles, id \in {1, 2} : FnGetRecord(1, x, 1, id, [retrieve_type |-> TRUE, retrieve_value |-> TRUE,
                                retrieve_tags |-> TRUE])
    \/ \E x \in CallHandles, r \in RecordHandles : FnGetRecordId(1, x, r)
    \/ \E x \in CallHandles, r \in RecordHandles : FnGetRecordType(1, x, r)
    \/ \E x \in CallHandles, r \in RecordHandles : FnGetRecordValue(1, x, r)
    \/ \E x \in CallHandles, r \in RecordHandles : FnGetRecordTags(1, x, r)
    \/ \E x \in CallHandles, r \in RecordHandles : FnFreeRecord(1, x, r)
    \/ \E x \in CallHandles : FnUpdateRecordValue(1, x, 1, 1, to_bytes(_value(2)))
    \/ \E x \in CallHandles, j \in JsonTags : FnAddRecordTags(1, x, 1, 1, j)
    \/ \E x \in CallHandles, j \in JsonTags : FnUpdateRecordTags(1, x, 1, 1, j)
    \/ \E x \in CallHandles, n \in JsonNames : FnDeleteRecordTags(1, x, 1, 1, n)
    \/ \E x \in CallHandles : FnDeleteRecord(1, x, 1, 1)
    \/ \E x \in CallHandles : FnGetStorageMetadata(1, x)
    \/ \E x \in CallHandles : FnSetStorageMetadata(1, x, <<>>)
    \/ \E x \in CallHandles : FnSearchRecords(1, x, 1)
    \/ \E x \in CallHandles : FnSearchAllRecords(1, x)
    \/ Cleanup(1)
    \/ Return

HandleSpec == Init /\ [][HandleNext]_vars


\* the handlers the wrapper still runs on the in-memory tables
InmemOps == {"fn_update_record_value", "fn_add_record_tags", "fn_update_record_tags",
             "fn_delete_record_tags", "fn_delete_record", "fn_get_storage_metadata",
             "fn_set_storage_metadata", "fn_search_records", "fn_search_all_records"}

\* C34: the record, tag, metadata and search handlers accept a wallet handle
\* that postgreswallet_fn_open returned and that is not closed: called with
\* a handle of the table of open wallets, none of them answers
\* CommonInvalidState, as add_record and get_record do not.
C34_OpenHandleAccepted ==
    (ret.op \in InmemOps \cup {"fn_add_record", "fn_get_record"}
        /\ ret.xhandle \in DOMAIN HandlesBefore)
      => ret.res # "CommonInvalidState"


\* the table of fetched records when the call in ret was made
RecordsBefore == ret.records

\* the handlers that take a wallet handle, and those that take a record handle
WalletHandleOps ==
    InmemOps \cup {"fn_add_record", "fn_get_record", "fn_get_record_id",
                   "fn_get_record_type", "fn_get_record_value", "fn_get_record_tags",
                   "fn_free_record", "fn_close"}
RecordHandleOps ==
    {"fn_get_record_id", "fn_get_record_type", "fn_get_record_value", "fn_get_record_tags",
     "fn_free_record"}

\* C35: a wallet handle is valid from the open that returned it to the close
\* that succeeds on it, and a record handle from the get_record that returned
\* it to the free_record that succeeds on it. A call with a wallet handle
\* that is not in the table of open wallets (closed, or never returned)
\* returns CommonInvalidState; with an open wallet handle, the accessors and
\* free_record return Success for a record handle of the table of fetched
\* records and CommonInvalidState for any other; get_record puts the handle
\* it returns in that table, free_record takes its handle out, and no other
\* call, another get_record included, takes a record handle out.
C35_HandleLifetime ==
    /\ (ret.op \in WalletHandleOps /\ ~contains_key(HandlesBefore, ret.xhandle))
          => ret.res = "CommonInvalidState"
    /\ (ret.op \in RecordHandleOps /\ contains_key(HandlesBefore, ret.xhandle))
          => ret.res = IF contains_key(RecordsBefore, ret.record_handle)
                       THEN "Success" ELSE "CommonInvalidState"
    /\ (ret.op = "fn_get_record" /\ ret.res = "Success")
          => contains_key(POSTGRES_ACTIVE_RECORDS, ret.record_handle)
    /\ (ret.op = "fn_free_record" /\ ret.res = "Success")
          => ~contains_key(POSTGRES_ACTIVE_RECORDS, ret.record_handle)
    /\ ret.op # "idle" =>
          \A r \in DOMAIN RecordsBefore :
             ~contains_key(POSTGRES_ACTIVE_RECORDS, r)
                => ret.op = "fn_free_record" /\ ret.record_handle = r /\ ret.res = "Success"

\* free_record has released one of two record handles; the wallet handle it
\* was called with is the second the wallet was opened under
C35_Witness ==
    /\ ret.op = "fn_free_record"
    /\ ret.res = "Success"
    /\ ret.xhandle = 2
    /\ Cardinality(DOMAIN RecordsBefore) = 2
    /\ Cardinality(DOMAIN POSTGRES_ACTIVE_RECORDS) = 1


(***************************************************************************)
(* The locks of the wrapper's tables, taken one at a time. A guard         *)
(* (`let handles = TABLE.lock().unwrap()`) is held to the end of the       *)
(* function, so a function that locks a second table holds the first       *)
(* while it waits for the second.                                          *)
(***************************************************************************)
\* the functions that lock POSTGRES_OPEN_WALLETS and then POSTGRES_ACTIVE_RECORDS
RecordFns == {"fn_get_record"} \cup RecordHandleOps
\* the functions that lock INMEM_OPEN_WALLETS first
InmemFirstFns ==
    InmemOps \cup {"fn_free_storage_metadata", "fn_get_search_total_count",
                   "fn_fetch_search_next_record", "fn_free_search"}
LockFns == RecordFns \cup InmemFirstFns \cup {"cleanup"}

\* the order that has the accessors and free_record lock the table of records first
lock_order_records_first(fn) ==
    IF fn \in RecordHandleOps THEN <<"POSTGRES_ACTIVE_RECORDS", "POSTGRES_OPEN_WALLETS">>
    ELSE IF fn \in RecordFns THEN <<"POSTGRES_OPEN_WALLETS", "POSTGRES_ACTIVE_RECORDS">>
    ELSE IF fn = "cleanup" THEN <<"INMEM_WALLETS", "INMEM_OPEN_WALLETS">>
    ELSE IF fn \in {"fn_free_storage_metadata"}
    THEN <<"INMEM_OPEN_WALLETS", "ACTIVE_METADATAS">>
    ELSE IF fn \in {"fn_get_search_total_count", "fn_free_search"}
    THEN <<"INMEM_OPEN_WALLETS", "ACTIVE_SEARCHES">>
    ELSE IF fn = "fn_fetch_search_next_record"
    THEN <<"INMEM_OPEN_WALLETS", "ACTIVE_SEARCHES", "ACTIVE_RECORDS">>
    ELSE IF fn = "fn_get_storage_metadata"
    THEN <<"INMEM_OPEN_WALLETS", "INMEM_WALLETS", "ACTIVE_METADATAS">>
    ELSE IF fn \in {"fn_search_records", "fn_search_all_records"}
    THEN <<"INMEM_OPEN_WALLETS", "INMEM_WALLETS", "ACTIVE_SEARCHES">>
    ELSE <<"INMEM_OPEN_WALLETS", "INMEM_WALLETS">>

\* the tables a function locks, in the order of its lock() calls
lock_order(fn) ==
    IF fn \in RecordFns THEN <<"POSTGRES_OPEN_WALLETS", "POSTGRES_ACTIVE_RECORDS">>
    ELSE IF fn = "cleanup" THEN <<"INMEM_WALLETS", "INMEM_OPEN_WALLETS">>
    ELSE IF fn \in {"fn_free_storage_metadata"}
    THEN <<"INMEM_OPEN_WALLETS", "ACTIVE_METADATAS">>
    ELSE IF fn \in {"fn_get_search_total_count", "fn_free_search"}
    THEN <<"INMEM_OPEN_WALLETS", "ACTIVE_SEARCHES">>
    ELSE IF fn = "fn_fetch_search_next_record"
    THEN <<"INMEM_OPEN_WALLETS", "ACTIVE_SEARCHES", "ACTIVE_RECORDS">>
    ELSE IF fn = "fn_get_storage_metadata"
    THEN <<"INMEM_OPEN_WALLETS", "INMEM_WALLETS", "ACTIVE_METADATAS">>
    ELSE IF fn \in {"fn_search_records", "fn_search_all_records"}
    THEN <<"INMEM_OPEN_WALLETS", "INMEM_WALLETS", "ACTIVE_SEARCHES">>
    ELSE <<"INMEM_OPEN_WALLETS", "INMEM_WALLETS">>

\* the record the calls of get_record ask for, and the handle it gets
LockRecordOptions ==
    [retrieve_type |-> TRUE, retrieve_value |-> TRUE, retrieve_tags |-> TRUE]
GetRecordOf(xhandle) ==
    postgreswallet_fn_get_record(POSTGRES_OPEN_WALLETS, POSTGRES_ACTIVE_RECORDS, databases,
                                 xhandle, 1, 1, LockRecordOptions, 1)

\* whether the function, holding its first k locks, goes on to its next
\* lock() instead of returning: the checks between the two lock() calls
goes_on(fn, k, xhandle) ==
    IF fn = "cleanup" THEN TRUE
    ELSE IF fn = "fn_get_record"
    THEN contains_key(POSTGRES_OPEN_WALLETS, xhandle) /\ GetRecordOf(xhandle).res = "Success"
    ELSE IF fn \in RecordFns THEN contains_key(POSTGRES_OPEN_WALLETS, xhandle)
    ELSE IF k = 1 THEN contains_key(INMEM_OPEN_WALLETS, xhandle)
    ELSE IF fn = "fn_fetch_search_next_record"
    THEN \E s \in DOMAIN ACTIVE_SEARCHES : ACTIVE_SEARCHES[s] # {}
    ELSE contains_key(INMEM_WALLETS, INMEM_OPEN_WALLETS[xhandle].id)

\* the thread that holds the lock of a table, or 0
Holder(table) == IF table = "POSTGRES_OPEN_WALLETS" THEN mutex ELSE locks[table]

WaitAt == <<"wait1", "wait2", "wait3">>
HeldAt == <<"held1", "held2", "held3">>
Waits == {WaitAt[k] : k \in 1..3}
Helds == {HeldAt[k] : k \in 1..3}
\* the number of the lock() call a thread is at
LockNo(at) == CHOOSE k \in 1..3 : at \in {WaitAt[k], HeldAt[k]}

\* a thread calls a function that locks more than one table
LockCall(t, fn, xhandle) ==
    /\ pc[t] = Outside
    /\ pc' = [pc EXCEPT ![t] = [at |-> "wait1", id |-> fn, xhandle |-> xhandle]]
    /\ UNCHANGED <<databases, storages, ret, before, iter_vars, kv_vars, rec_vars, inmem_vars, conc_vars,
                   POSTGRES_OPEN_WALLETS, sequence, mutex>>

\* TABLE.lock() returns
LockAcquire(t) ==
    /\ pc[t].at \in Waits
    /\ LET k == LockNo(pc[t].at)
           table == lock_order(pc[t].id)[k]
       IN /\ Holder(table) = 0
          /\ IF table = "POSTGRES_OPEN_WALLETS"
             THEN mutex' = t /\ UNCHANGED locks
             ELSE locks' = [locks EXCEPT ![table] = t] /\ UNCHANGED mutex
          /\ pc' = [pc EXCEPT ![t].at = HeldAt[k]]
    /\ UNCHANGED <<databases, storages, ret, before, iter_vars, kv_vars, rec_vars,
                   INMEM_OPEN_WALLETS, INMEM_WALLETS, ACTIVE_METADATAS, ACTIVE_SEARCHES,
                   POSTGRES_OPEN_WALLETS, sequence, conc_vars>>

\* the function goes on to its next lock() call
LockProceed(t) ==
    /\ pc[t].at \in Helds
    /\ LET k == LockNo(pc[t].at)
       IN /\ k < Len(lock_order(pc[t].id))
          /\ goes_on(pc[t].id, k, pc[t].xhandle)
          /\ pc' = [pc EXCEPT ![t].at = WaitAt[k + 1]]
    /\ UNCHANGED <<databases, storages, ret, before, iter_vars, kv_vars, rec_vars, inmem_vars, conc_vars,
                   POSTGRES_OPEN_WALLETS, sequence, mutex>>

\* the function returns and its guards are dropped; get_record and
\* free_record that hold both locks have changed the table of records
LockReturn(t) ==
    /\ pc[t].at \in Helds
    /\ LET k == LockNo(pc[t].at)
           fn == pc[t].id
           last == k = Len(lock_order(fn))
       IN /\ last \/ ~goes_on(fn, k, pc[t].xhandle)
          /\ POSTGRES_ACTIVE_RECORDS' =
                IF last /\ fn = "fn_get_record" THEN GetRecordOf(pc[t].xhandle).records
                ELSE IF last /\ fn = "fn_free_record"
                THEN postgreswallet_fn_free_record(POSTGRES_OPEN_WALLETS,
                                                   POSTGRES_ACTIVE_RECORDS,
                                                   pc[t].xhandle, 1).records
                ELSE POSTGRES_ACTIVE_RECORDS
    /\ mutex' = IF mutex = t THEN 0 ELSE mutex
    /\ locks' = [m \in LockTables |-> IF locks[m] = t THEN 0 ELSE locks[m]]
    /\ pc' = [pc EXCEPT ![t] = Outside]
    /\ UNCHANGED <<databases, storages, ret, before, iter_vars, kv_vars,
                   INMEM_OPEN_WALLETS, INMEM_WALLETS, ACTIVE_METADATAS, ACTIVE_SEARCHES,
                   POSTGRES_OPEN_WALLETS, sequence, conc_vars>>

\* two threads: one creates and opens a wallet and adds a record, both call
\* the functions that lock more than one table
LockNext ==
    \/ FnCreate(1, "walle1", <<>>)
    \/ FnOpen(1, "walle1")
    \/ FnOpenLock(1)
    \/ FnOpenCheck(1)
    \/ FnOpenInsert(1)
    \/ FnAddRecord(1, 1, 1, 1, to_bytes(_value(1)), {})
    \/ Return
    \/ \E t \in Threads, fn \in LockFns : LockCall(t, fn, 1)
    \/ \E t \in Threads : LockAcquire(t)
    \/ \E t \in Threads : LockProceed(t)
    \/ \E t \in Threads : LockReturn(t)

LockSpec == Init /\ [][LockNext]_vars

\* the table a thread waits for the lock of: none outside a lock() call
Waiting(t) ==
    IF pc[t].at \in Waits THEN {lock_order(pc[t].id)[LockNo(pc[t].at)]}
    ELSE IF pc[t].at = "open" THEN {"POSTGRES_OPEN_WALLETS"}
    ELSE {}

Holds(t) == {m \in LockTables \cup {"POSTGRES_OPEN_WALLETS"} : Holder(m) = t}

\* C36: no two calls each hold the lock of a table while waiting for a lock
\* the other holds.
C36_NoDeadlock ==
    \A t \in Threads, u \in Threads :
       ~(t # u /\ Waiting(t) \cap Holds(u) # {} /\ Waiting(u) \cap Holds(t) # {})

\* cleanup holds INMEM_WALLETS and waits for INMEM_OPEN_WALLETS, which a call
\* of another thread holds
C36_Witness ==
    \E t \in Threads, u \in Threads :
       /\ t # u
       /\ pc[t].id = "cleanup"
       /\ "INMEM_WALLETS" \in Holds(t)
       /\ Waiting(t) = {"INMEM_OPEN_WALLETS"}
       /\ "INMEM_OPEN_WALLETS" \in Holds(u)


\* ---------------------------------------------------------------------
\* Calls that run at the same time. Each thread is a client with requests
\* or a connection of its own; `calls` holds the call it has begun. A request
\* to the REST server, a single SQL statement and a committed transaction
\* take effect in one step; the steps of different threads interleave.

Begun(op, w, key, val) == [NoCall EXCEPT !.op = op, !.w = w, !.key = key, !.val = val]

\* RemoteWallet::set up to the response of its GET: tmp_id is the row id
\* call_get_internal found, 0 for the empty string
RemoteWallet_set_begin(srv, w, key, value) ==
    LET current == virtual_wallet_name(w.wallet_name, w.virtual_wallet)
        found == remote_call_get_internal(srv, current, key, "answered")
    IN [Begun("set", w, key, value) EXCEPT
           !.tmp_id = IF found.res = "Ok" THEN found.id ELSE 0]

\* RemoteWallet::set from there: PUT to the row of tmp_id, or POST
RemoteWallet_set_write(srv, call, now) ==
    LET k == key_to_item_type_id(call.key)
        map == [wallet_name |-> virtual_wallet_name(call.w.wallet_name, call.w.virtual_wallet),
                item_type |-> k.item_type, item_id |-> k.item_id, item_value |-> call.val]
    IN RemoteWrite(srv, IF call.tmp_id # 0 THEN ServerPut(srv, call.tmp_id, map)
                        ELSE ServerPost(srv, map, now), "answered")

ConcUnchanged ==
    UNCHANGED <<databases, storages, ret, before, iter_vars, ffi_vars, files, clock,
                kv_before, rec_vars, inmem_vars>>

SetLookup(t, w, key, value) ==
    /\ calls[t].op = "none"
    /\ calls' = [calls EXCEPT ![t] = RemoteWallet_set_begin(server, w, key, value)]
    /\ UNCHANGED server
    /\ ConcUnchanged

SetWrite(t) ==
    /\ calls[t].op = "set"
    /\ calls[t].tmp_id = 0 => RowCount < MaxRows
    /\ LET r == RemoteWallet_set_write(server, calls[t], clock)
       IN /\ server' = r.server
          /\ calls' = [calls EXCEPT ![t].op = "set_done", ![t].res = r.res]
    /\ ConcUnchanged

ConcReturn(t) ==
    /\ calls[t].res # ""
    /\ calls' = [calls EXCEPT ![t] = NoCall]
    /\ UNCHANGED server
    /\ ConcUnchanged

\* the clients of one root wallet and its virtual wallets
SetWallets == {w \in KvWallets : w.wallet_name = "wallet1"}
SetKeys == {<<"typeA", "k1">>, <<"typeB", "k1">>}

SetRaceNext ==
    \/ \E t \in Threads, w \in SetWallets, k \in SetKeys, v \in KvValues : SetLookup(t, w, k, v)
    \/ \E t \in Threads : SetWrite(t)
    \/ \E t \in Threads : ConcReturn(t)

SetRaceSpec == Init /\ [][SetRaceNext]_vars

\* the sets of `key` through `w` that have completed and not yet returned
SetsDone(w, key) ==
    {t \in Threads : calls[t].op = "set_done" /\ calls[t].w = w /\ calls[t].key = key}

\* C37: whatever the interleaving of the set(K, .) calls that several clients
\* issue at the same time on one virtual wallet of the remote backend, once
\* they have all completed the server holds exactly one item for K in that
\* wallet and a get(K) that follows returns one of the written values, never
\* NotFound.
C37_ConcurrentSetsLeaveOneItem ==
    \A w \in SetWallets, k \in SetKeys :
        (\A t \in Threads : calls[t].op \in {"none", "set_done"}) /\ SetsDone(w, k) # {} =>
            LET g == RemoteWallet_get(server, w, k, Answered)
            IN /\ Cardinality(RemoteRows(server.items,
                      virtual_wallet_name(w.wallet_name, w.virtual_wallet), k)) = 1
               /\ g.res = "Ok"
               /\ g.value \in KvValues


\* ---------------------------------------------------------------------
\* PostgresStorage over several connections to one database. A handler that
\* runs in a Transaction takes effect when it commits; get and the lookup of
\* delete_tags send their statements on the connection itself, outside any
\* transaction, so every statement reads what is committed when it runs.

\* "SELECT name, value FROM tags_encrypted WHERE item_id = $1", as Tags
SelectEncryptedTags(db, item_id) ==
    {[variant |-> "Encrypted", name |-> r.name, value |-> r.value]
        : r \in {x \in db.tags_encrypted : x.item_id = item_id}}

\* get, mutated: the plaintext tags are not read
SelectPlaintextTags_none(db, item_id) == {}

\* "SELECT name, value FROM tags_plaintext WHERE item_id = $1", as Tags
SelectPlaintextTags(db, item_id) ==
    {[variant |-> "PlainText", name |-> r.name, value |-> r.value]
        : r \in {x \in db.tags_plaintext : x.item_id = item_id}}

BegunOn(op, wid, type_, id) ==
    [NoCall EXCEPT !.op = op, !.wid = wid, !.type_ = type_, !.id = id]

\* PostgresStorage::get with retrieve_tags, first statement: the item row
get_select_item(db, wid, type_, id) ==
    LET rows == SelectItem(db, type_, id)
    IN IF rows = {}
       THEN [BegunOn("get_done", wid, type_, id) EXCEPT !.res = "ItemNotFound"]
       ELSE [BegunOn("get_item", wid, type_, id) EXCEPT !.item_id = (CHOOSE r \in rows : TRUE).id]

\* second statement: tags.push(Tag::Encrypted(..)) for each row
get_select_encrypted(db, call) ==
    [call EXCEPT !.op = "get_encrypted", !.tags = SelectEncryptedTags(db, call.item_id)]

\* third statement: tags.push(Tag::PlainText(..)) for each row, then Ok(record)
get_select_plaintext(db, call) ==
    [call EXCEPT !.op = "get_done", !.tags = @ \cup SelectPlaintextTags(db, call.item_id),
                 !.res = "Ok"]

DbUnchanged ==
    UNCHANGED <<storages, ret, before, iter_vars, ffi_vars, kv_vars, rec_vars, inmem_vars>>

Connected(t, wid) == calls[t].op = "none" /\ databases[wid].tables

GetSelectItem(t, wid, type_, id) ==
    /\ Connected(t, wid)
    /\ LET db == databases[wid]
           call == get_select_item(db, wid, type_, id)
       IN calls' = [calls EXCEPT ![t] =
                       [call EXCEPT !.found = SelectItem(db, type_, id) # {},
                                    !.seen = {RetrieveTags(db, call.item_id)}]]
    /\ UNCHANGED databases
    /\ DbUnchanged

GetSelectEncrypted(t) ==
    /\ calls[t].op = "get_item"
    /\ calls' = [calls EXCEPT ![t] = get_select_encrypted(databases[calls[t].wid], calls[t])]
    /\ UNCHANGED databases
    /\ DbUnchanged

GetSelectPlaintext(t) ==
    /\ calls[t].op = "get_encrypted"
    /\ calls' = [calls EXCEPT ![t] = get_select_plaintext(databases[calls[t].wid], calls[t])]
    /\ UNCHANGED databases
    /\ DbUnchanged

\* a handler that runs in one Transaction, at its commit (or rollback): the
\* gets in progress on the database have one more tag set of their record to see
Commit(t, wid, r) ==
    /\ Connected(t, wid)
    /\ r.db.seq <= MaxSeq
    /\ databases' = [databases EXCEPT ![wid] = r.db]
    /\ calls' = [u \in Threads |->
                    IF calls[u].op \in {"get_item", "get_encrypted"} /\ calls[u].wid = wid
                    THEN [calls[u] EXCEPT !.seen = @ \cup {RetrieveTags(r.db, calls[u].item_id)}]
                    ELSE calls[u]]
    /\ DbUnchanged

ConnAdd(t, wid, type_, id, value, tags) == Commit(t, wid, add(databases[wid], type_, id, value, tags))

ConnUpdateTags(t, wid, type_, id, tags) == Commit(t, wid, update_tags(databases[wid], type_, id, tags))

ConnDelete(t, wid, type_, id) == Commit(t, wid, delete(databases[wid], type_, id))

\* PostgresStorage::delete_tags up to the lookup of the item row, which runs on
\* the connection before the Transaction is opened
delete_tags_lookup_unchecked(db, wid, type_, id, tag_names) ==
    LET rows == SelectItem(db, type_, id)
    IN [BegunOn("delete_tags", wid, type_, id) EXCEPT
           !.item_id = IF rows = {} THEN 0 ELSE (CHOOSE r \in rows : TRUE).id,
           !.tag_names = tag_names]

delete_tags_lookup(db, wid, type_, id, tag_names) ==
    LET rows == SelectItem(db, type_, id)
    IN IF rows = {}
       THEN [BegunOn("delete_tags_done", wid, type_, id) EXCEPT
                !.tag_names = tag_names, !.res = "ItemNotFound"]
       ELSE [BegunOn("delete_tags", wid, type_, id) EXCEPT
                !.item_id = (CHOOSE r \in rows : TRUE).id, !.tag_names = tag_names]

\* PostgresStorage::delete_tags from Transaction::new to tx.commit()
delete_tags_commit(db, call) ==
    [res |-> "Ok", db |-> DeleteTagList(db, call.item_id, call.tag_names)]

DeleteTagsLookup(t, wid, type_, id, tag_names) ==
    /\ Connected(t, wid)
    /\ calls' = [calls EXCEPT ![t] =
                    [delete_tags_lookup(databases[wid], wid, type_, id, tag_names)
                        EXCEPT !.found = SelectItem(databases[wid], type_, id) # {}]]
    /\ UNCHANGED databases
    /\ DbUnchanged

DeleteTagsCommit(t) ==
    /\ calls[t].op = "delete_tags"
    /\ LET wid == calls[t].wid
           r == delete_tags_commit(databases[wid], calls[t])
       IN /\ databases' = [databases EXCEPT ![wid] = r.db]
          /\ calls' = [u \in Threads |->
                IF u = t
                THEN [calls[t] EXCEPT
                         !.op = "delete_tags_done", !.res = r.res,
                         !.existed = \E x \in r.db.items : x.id = calls[t].item_id,
                         !.tags = RetrieveTags(r.db, calls[t].item_id)]
                ELSE IF calls[u].op \in {"get_item", "get_encrypted"} /\ calls[u].wid = wid
                THEN [calls[u] EXCEPT !.seen = @ \cup {RetrieveTags(r.db, calls[u].item_id)}]
                ELSE calls[u]]
    /\ DbUnchanged

\* the database and the record the connections work on, and the tag lists they
\* write: two that differ in the value of both variants
ConnWallet == "walle1"
ConnKey == <<1, 1>>
ConnValue == [data |-> 7, key |-> 10]
ConnTagLists ==
    {<<[variant |-> "Encrypted", name |-> 1, value |-> 3],
       [variant |-> "PlainText", name |-> 1, value |-> 5]>>,
     <<[variant |-> "Encrypted", name |-> 1, value |-> 4],
       [variant |-> "PlainText", name |-> 1, value |-> 6]>>}
ConnTagNameLists == {names \in TagNameLists : Len(names) = 1}

ConnNext ==
    \/ CreateStorage(ConnWallet, <<1, 2>>)
    \/ Return
    \/ \E t \in Threads, tags \in ConnTagLists :
          ConnAdd(t, ConnWallet, ConnKey[1], ConnKey[2], ConnValue, tags)
    \/ \E t \in Threads, tags \in ConnTagLists :
          ConnUpdateTags(t, ConnWallet, ConnKey[1], ConnKey[2], tags)
    \/ \E t \in Threads : ConnDelete(t, ConnWallet, ConnKey[1], ConnKey[2])
    \/ \E t \in Threads : GetSelectItem(t, ConnWallet, ConnKey[1], ConnKey[2])
    \/ \E t \in Threads : GetSelectEncrypted(t)
    \/ \E t \in Threads : GetSelectPlaintext(t)
    \/ \E t \in Threads : ConcReturn(t)

\* gets on one connection while the others add, retag and delete the record
ConnSpec == Init /\ [][ConnNext]_vars

TagRaceNext ==
    \/ CreateStorage(ConnWallet, <<1, 2>>)
    \/ Return
    \/ \E t \in Threads, tags \in ConnTagLists :
          ConnAdd(t, ConnWallet, ConnKey[1], ConnKey[2], ConnValue, tags)
    \/ \E t \in Threads : ConnDelete(t, ConnWallet, ConnKey[1], ConnKey[2])
    \/ \E t \in Threads, names \in ConnTagNameLists :
          DeleteTagsLookup(t, ConnWallet, ConnKey[1], ConnKey[2], names)
    \/ \E t \in Threads : DeleteTagsCommit(t)
    \/ \E t \in Threads : ConcReturn(t)

\* delete_tags on one connection while the others add and delete the record
TagRaceSpec == Init /\ [][TagRaceNext]_vars

\* the tags of one variant in a tag set
OfVariant(tags, variant) == {x \in tags : x.variant = variant}

\* the gets that have returned a record whose item row is still there
GetsDone ==
    {t \in Threads : /\ calls[t].op = "get_done" /\ calls[t].res = "Ok"
                     /\ \E x \in databases[calls[t].wid].items : x.id = calls[t].item_id}

\* C38 as stated: a get with retrieve_tags that runs while another connection
\* commits an update_tags of the same record returns the complete tag set the
\* record had before the update_tags or the complete tag set it has after it,
\* never old tags of one variant with new tags of the other.
C38_GetTagsNotMixed ==
    \A t \in GetsDone : calls[t].tags \in calls[t].seen

\* C38: a get with retrieve_tags that runs while another connection commits an
\* update_tags of the same record returns, for each variant, the complete
\* tags of that variant the record had before the update_tags or has after
\* it; the two variants may come from different sides of the update_tags.
C38_GetTagsPerVariant ==
    \A t \in GetsDone :
        \A variant \in {"Encrypted", "PlainText"} :
            OfVariant(calls[t].tags, variant) \in {OfVariant(s, variant) : s \in calls[t].seen}

\* a get returned old encrypted tags with new plaintext tags
C38_Witness ==
    \E t \in GetsDone :
        /\ Cardinality(calls[t].seen) = 2
        /\ calls[t].tags \notin calls[t].seen
        /\ OfVariant(calls[t].tags, "Encrypted") # {}
        /\ OfVariant(calls[t].tags, "PlainText") # {}


\* the delete_tags calls that have completed
DeleteTagsDone == {t \in Threads : calls[t].op = "delete_tags_done"}

\* the tags of a tag set that a list of tag names addresses
Named(tags, tag_names) ==
    {x \in tags : \E n \in 1..Len(tag_names) :
        /\ tag_names[n].name = x.name
        /\ tag_names[n].variant = (IF x.variant = "Encrypted" THEN "OfEncrypted" ELSE "OfPlain")}

C40_OpenHandlesHaveTables ==
    /\ \A x \in DOMAIN POSTGRES_OPEN_WALLETS :
          LET db == databases[POSTGRES_OPEN_WALLETS[x].id]
          IN db.exists /\ db.tables
    /\ (ret.op = "fn_delete" /\ ret.res = "Success") =>
          \A m \in MetaValues :
              postgreswallet_fn_create(databases, ret.wid, m).res = "Success"

====
